---- MODULE Spec2Model ----
(***************************************************************************)
(* Model of the telemetry engine of tg-server-bot (src/system_report.py):  *)
(* the counter readers, the metric calculators and the report pipeline     *)
(* main().  Dictionaries are functions whose DOMAIN is the set of keys     *)
(* present; floating-point values are exact rationals <<num, den>> with    *)
(* den > 0 in lowest terms; a rendered number is a record naming the       *)
(* format and the printed digits; a string that passes through escape_html *)
(* is a sequence of chunks, a chunk being one markup-significant character *)
(* or a piece of text without any.                                         *)
(***************************************************************************)
EXTENDS Integers, Sequences, FiniteSets, TLC

(***************************************************************************)
(* Bounds of the model.                                                    *)
(***************************************************************************)
MaxTick == 2        \* largest value of one field of the "cpu " line
MaxCores == 2       \* largest number of cores reported by either source
MaxPid == 2         \* process ids are 1..MaxPid
MaxPTick == 2       \* largest utime+stime of a process
MaxDiff == 2        \* largest total-CPU tick delta handed to the calculator
MaxUnusual == 1     \* readings of one run that differ from what its host gives
MaxLines == 2       \* records of a counter file handed to a reader on its own
MaxScale == 2       \* byte counts are up to MaxScale times a power of 1024
MaxRequests == 2    \* requests the /ci-report endpoint receives
MaxUsers == 2       \* user ids are 1..MaxUsers
MaxUpdates == 3     \* updates the bot handles

(***************************************************************************)
(* Program constants.                                                      *)
(***************************************************************************)
SECTOR_BYTES == 512
KIB == 1024
CPU_ALERT == 85
MEM_ALERT == 90
SWAP_ALERT == 80
SUMMARIZE_EVERY_N_TURNS == 7
DISK_ALERT == 90
LOAD_FACTOR == 2
TOP_N == 5
NAME_WIDTH == 20
DOCKER_ERROR_WIDTH == 50
SERVICE_ERROR_WIDTH == 30

(***************************************************************************)
(* Exact arithmetic standing for Python floats.                            *)
(***************************************************************************)
Abs(n) == IF n < 0 THEN -n ELSE n

RECURSIVE GCD(_, _)
GCD(a, b) == IF b = 0 THEN a ELSE GCD(b, a % b)

\* the rational n/d (d # 0) in lowest terms with a positive denominator
Rat(n, d) ==
    LET g == GCD(Abs(n), Abs(d))
        s == IF d < 0 THEN -1 ELSE 1
    IN <<(s * n) \div g, (s * d) \div g>>

RInt(n) == <<n, 1>>
RLess(r, q) == r[1] * q[2] < q[1] * r[2]
RLeq(r, q) == r[1] * q[2] <= q[1] * r[2]
RMax(r, q) == IF RLess(r, q) THEN q ELSE r

\* f"{x:.1f}": the number of tenths printed, rounding half to even
Round1(r) ==
    LET a == Abs(r[1]) * 10
        q == a \div r[2]
        rem == a % r[2]
        m == IF 2 * rem > r[2] THEN q + 1
             ELSE IF 2 * rem < r[2] THEN q
             ELSE IF q % 2 = 0 THEN q ELSE q + 1
    IN IF r[1] < 0 THEN -m ELSE m

(***************************************************************************)
(* Dictionaries and rendered text.                                         *)
(***************************************************************************)
EmptyDict == [k \in {} |-> 0]
Get(d, k, default) == IF k \in DOMAIN d THEN d[k] ELSE default
Put(d, k, v) == [x \in DOMAIN d \cup {k} |-> IF x = k THEN v ELSE d[x]]

NA == [fmt |-> "N/A"]
Pct1(r) == [fmt |-> ".1f%", tenths |-> Round1(r)]

RECURSIVE SumSeq(_)
SumSeq(s) == IF s = <<>> THEN 0 ELSE Head(s) + SumSeq(Tail(s))

Min(a, b) == IF a < b THEN a ELSE b

\* a chunk of a string: s is one of the characters & < > " ' or text free of them
Ch(s) == [s |-> s]
Lit(s) == <<Ch(s)>>
\* the string whose characters are the elements of chars
Text(chars) == [i \in DOMAIN chars |-> Ch(chars[i])]
\* text[:n] of a string given character by character
Take(text, n) == SubSeq(text, 1, Min(Len(text), n))

\* sep.join(texts)
RECURSIVE Join(_, _)
Join(texts, sep) ==
    IF texts = <<>> THEN <<>>
    ELSE IF Len(texts) = 1 THEN texts[1]
    ELSE texts[1] \o Lit(sep) \o Join(Tail(texts), sep)

(***************************************************************************)
(* Counter Reader.  A source file is a record: readable says whether the   *)
(* open succeeds, the other fields give the parsed shape of its content.   *)
(***************************************************************************)

\* /host/proc/cpuinfo: procs is the number of lines starting with "processor";
\* os_count is os.cpu_count(), 0 standing for None
read_cpu_count(file, os_count) ==
    LET fallback == IF os_count > 0 THEN os_count ELSE 1
    IN IF ~file.readable THEN fallback
       ELSE IF file.procs > 0 THEN file.procs ELSE fallback

\* /host/proc/loadavg: parts are the first three fields, in hundredths
read_load_average(file) ==
    IF file.readable /\ Len(file.parts) >= 3
    THEN [min1 |-> file.parts[1], min5 |-> file.parts[2], min15 |-> file.parts[3]]
    ELSE [min1 |-> 0, min5 |-> 0, min15 |-> 0]

\* /host/proc/stat: hasCpu says whether a line starts with "cpu ", fields are
\* the numbers after the "cpu" token (parts[1:] of the code)
read_cpu_stats(file) ==
    IF ~file.readable \/ ~file.hasCpu THEN EmptyDict
    ELSE LET n == Len(file.fields)
             total == SumSeq(SubSeq(file.fields, 1, Min(n, 7)))
         IN IF n >= 4
            THEN [total |-> total, idle |-> file.fields[4]]
            ELSE [total |-> total]      \* parts[4] raised after "total" was stored

\* /host/proc/meminfo: lines is the sequence of relevant lines, each
\* [key, kib, numeric]; a non-numeric value raises and ends the read
MemKeys == {"total", "free", "available", "buffers", "cached", "swap_total", "swap_free"}

RECURSIVE parse_meminfo(_, _)
parse_meminfo(lines, mem_info) ==
    IF lines = <<>> THEN mem_info
    ELSE LET l == Head(lines) IN
         IF ~l.numeric THEN mem_info
         ELSE LET next == Put(mem_info, l.key, l.kib * KIB) IN
              IF DOMAIN next = MemKeys THEN next
              ELSE parse_meminfo(Tail(lines), next)

read_memory_stats(file) ==
    IF ~file.readable THEN EmptyDict ELSE parse_meminfo(file.lines, EmptyDict)

\* os.statvfs(HOST_ROOT_PATH): ok says whether the call succeeds
read_disk_stats(vfs) ==
    IF ~vfs.ok THEN [total |-> 0, used |-> 0, free |-> 0, percent |-> RInt(0)]
    ELSE LET total == vfs.f_frsize * vfs.f_blocks
             free == vfs.f_frsize * vfs.f_bavail
             used == total - free
         IN [total |-> total, used |-> used, free |-> free,
             percent |-> IF total > 0 THEN Rat(used * 100, total) ELSE RInt(0)]

IsLoopOrRam(device) == device \in {"loop0", "ram0"}

\* /host/proc/diskstats: each line is [device, nparts, read_sectors,
\* write_sectors, numeric]; int() of a non-numeric field ends the read
RECURSIVE parse_diskstats(_, _)
parse_diskstats(lines, disk_io) ==
    IF lines = <<>> THEN disk_io
    ELSE LET l == Head(lines) IN
         IF l.nparts >= 14 /\ ~IsLoopOrRam(l.device)
         THEN IF ~l.numeric THEN disk_io
              ELSE parse_diskstats(Tail(lines),
                       Put(disk_io, l.device,
                           [read_sectors |-> l.read_sectors,
                            write_sectors |-> l.write_sectors]))
         ELSE parse_diskstats(Tail(lines), disk_io)

read_disk_io(file) ==
    IF ~file.readable THEN EmptyDict ELSE parse_diskstats(file.lines, EmptyDict)

\* /host/proc/net/dev after its two header lines: each line is
\* [interface, nparts, bytes_recv, bytes_sent, numeric]
RECURSIVE parse_netdev(_, _)
parse_netdev(lines, net_info) ==
    IF lines = <<>> THEN net_info
    ELSE LET l == Head(lines) IN
         IF l.nparts >= 10
         THEN IF ~l.numeric THEN net_info
              ELSE parse_netdev(Tail(lines),
                       Put(net_info, l.interface,
                           [bytes_recv |-> l.bytes_recv, bytes_sent |-> l.bytes_sent]))
         ELSE parse_netdev(Tail(lines), net_info)

read_network_stats(file) ==
    IF ~file.readable THEN EmptyDict ELSE parse_netdev(file.lines, EmptyDict)

\* variant: an entry that could not be read is read a second time
read_entry_retry(pid, d) ==
    IF d.ok \/ d.again
    THEN <<[pid |-> pid, name |-> d.name, total_time |-> d.utime + d.stime,
            vsize |-> d.vsize, rss |-> d.rss]>>
    ELSE <<>>

\* the body of the listing loop for one /host/proc/[pid]: d.ok says whether
\* comm, stat and status could all be read and parsed, d.again whether they
\* could be at a later attempt; what could not be read adds nothing
read_entry(pid, d) ==
    IF d.ok
    THEN <<[pid |-> pid, name |-> d.name, total_time |-> d.utime + d.stime,
            vsize |-> d.vsize, rss |-> d.rss]>>
    ELSE <<>>

\* the loop over the os.listdir order of the numeric entries
RECURSIVE read_entries(_, _)
read_entries(listing, detail) ==
    IF listing = <<>> THEN <<>>
    ELSE read_entry(Head(listing), detail[Head(listing)])
         \o read_entries(Tail(listing), detail)

read_processes_with_stats(dir) ==
    IF ~dir.readable THEN <<>> ELSE read_entries(dir.listing, dir.detail)

(***************************************************************************)
(* Metric Calculator.                                                      *)
(***************************************************************************)

\* the KeyError of calculate_cpu_percent: both snapshots are non-empty and
\* one of them lacks "idle" ("total" is stored first, so it is never missing)
calculate_cpu_percent_raises(prev_cpu_times, current_cpu_times) ==
    /\ prev_cpu_times # EmptyDict
    /\ current_cpu_times # EmptyDict
    /\ \/ "total" \notin DOMAIN current_cpu_times
       \/ "total" \notin DOMAIN prev_cpu_times
       \/ "idle" \notin DOMAIN current_cpu_times
       \/ "idle" \notin DOMAIN prev_cpu_times

calculate_cpu_percent(prev_cpu_times, current_cpu_times) ==
    IF prev_cpu_times = EmptyDict \/ current_cpu_times = EmptyDict THEN RInt(0)
    ELSE LET total_diff == current_cpu_times.total - prev_cpu_times.total
             idle_diff == current_cpu_times.idle - prev_cpu_times.idle
         IN IF total_diff = 0 THEN RInt(0)
            ELSE Rat((total_diff - idle_diff) * 100, total_diff)

Pids(processes) == {processes[i].pid : i \in DOMAIN processes}

\* next((p for p in prev_processes if p["pid"] == pid), None): the first
\* entry with that pid; <<>> stands for None
FirstWithPid(processes, pid) ==
    LET hits == {i \in DOMAIN processes : processes[i].pid = pid}
    IN IF hits = {} THEN <<>>
       ELSE <<processes[CHOOSE i \in hits : \A j \in hits : i <= j]>>

\* variant: the early return hands back the dictionary before it is filled
zero_percentages_unfilled(current_processes, process_cpu_percentages) ==
    process_cpu_percentages

\* the branch for cpu_time_diff_ticks <= 0: every current process gets 0.0
RECURSIVE zero_percentages(_, _)
zero_percentages(current_processes, process_cpu_percentages) ==
    IF current_processes = <<>> THEN process_cpu_percentages
    ELSE zero_percentages(Tail(current_processes),
             Put(process_cpu_percentages, Head(current_processes).pid, RInt(0)))

\* variant: the max(0.0, ...) floor is left out
process_cpu_entry_unclamped(prev_p, current_p, cpu_time_diff_ticks, cpu_count) ==
    Rat((current_p.total_time - prev_p.total_time) * 100 * cpu_count,
        cpu_time_diff_ticks)

\* the percentage stored for one process that has a previous entry
process_cpu_entry(prev_p, current_p, cpu_time_diff_ticks, cpu_count) ==
    LET time_diff == current_p.total_time - prev_p.total_time
        cpu_percent == Rat(time_diff * 100 * cpu_count, cpu_time_diff_ticks)
    IN RMax(RInt(0), cpu_percent)

\* the loop over current_processes
RECURSIVE process_cpu_loop(_, _, _, _, _)
process_cpu_loop(prev_processes, current_processes, cpu_time_diff_ticks, cpu_count, process_cpu_percentages) ==
    IF current_processes = <<>> THEN process_cpu_percentages
    ELSE LET current_p == Head(current_processes)
             prev_p == FirstWithPid(prev_processes, current_p.pid)
             value == IF prev_p # <<>>
                      THEN process_cpu_entry(prev_p[1], current_p,
                                             cpu_time_diff_ticks, cpu_count)
                      ELSE RInt(0)
         IN process_cpu_loop(prev_processes, Tail(current_processes),
                cpu_time_diff_ticks, cpu_count,
                Put(process_cpu_percentages, current_p.pid, value))

\* os_count is os.cpu_count(), 0 standing for None
calculate_process_cpu_percent(prev_processes, current_processes, cpu_time_diff_ticks, os_count) ==
    IF cpu_time_diff_ticks <= 0
    THEN zero_percentages(current_processes, EmptyDict)
    ELSE process_cpu_loop(prev_processes, current_processes, cpu_time_diff_ticks,
                          IF os_count > 0 THEN os_count ELSE 1, EmptyDict)

RECURSIVE calculate_process_memory_percent(_, _)
calculate_process_memory_percent(processes, total_memory_bytes) ==
    IF processes = <<>> THEN EmptyDict
    ELSE LET p == processes[Len(processes)]
             mem_percent == IF total_memory_bytes > 0
                            THEN Rat(p.rss * 100, total_memory_bytes)
                            ELSE RInt(0)
         IN Put(calculate_process_memory_percent(
                    SubSeq(processes, 1, Len(processes) - 1), total_memory_bytes),
                p.pid, mem_percent)

\* variant: an interface missing from the first snapshot counts from zero
calculate_network_speed_from_zero(prev_net, current_net) ==
    [interface \in DOMAIN current_net |->
        [bytes_sent_per_sec |->
             current_net[interface].bytes_sent
             - (IF interface \in DOMAIN prev_net THEN prev_net[interface].bytes_sent ELSE 0),
         bytes_recv_per_sec |->
             current_net[interface].bytes_recv
             - (IF interface \in DOMAIN prev_net THEN prev_net[interface].bytes_recv ELSE 0)]]

calculate_network_speed(prev_net, current_net) ==
    [interface \in DOMAIN current_net \cap DOMAIN prev_net |->
        [bytes_sent_per_sec |->
             current_net[interface].bytes_sent - prev_net[interface].bytes_sent,
         bytes_recv_per_sec |->
             current_net[interface].bytes_recv - prev_net[interface].bytes_recv]]

(***************************************************************************)
(* Report Renderer helpers.                                                *)
(***************************************************************************)
Units == <<"B", "KiB", "MiB", "GiB", "TiB">>

\* the for loop of bytes_to_human_readable, entered at unit number i
RECURSIVE human_readable_from(_, _)
human_readable_from(num_bytes, i) ==
    IF i > Len(Units)
    THEN [fmt |-> ".1f unit", tenths |-> Round1(num_bytes), unit |-> "PiB"]
    ELSE IF RLess(num_bytes, RInt(KIB))
         THEN [fmt |-> ".1f unit", tenths |-> Round1(num_bytes), unit |-> Units[i]]
         ELSE human_readable_from(Rat(num_bytes[1], num_bytes[2] * KIB), i + 1)

bytes_to_human_readable(num_bytes) == human_readable_from(RInt(num_bytes), 1)

\* variant: the text is handed on as it came
escape_html_raw(text) == text

\* html.escape(str(text)): & < > " ' become entities, all else is kept
escape_html(text) ==
    [i \in DOMAIN text |->
        [text[i] EXCEPT !.s = CASE @ = "&" -> "&amp;"
                                [] @ = "<" -> "&lt;"
                                [] @ = ">" -> "&gt;"
                                [] @ = "\"" -> "&quot;"
                                [] @ = "'" -> "&#x27;"
                                [] OTHER -> @]]

\* the sums of the disk I/O loop of main, over the devices of both snapshots
RECURSIVE disk_io_total(_, _, _, _)
disk_io_total(prev_disk_io, current_disk_io, devices, field) ==
    IF devices = {} THEN 0
    ELSE LET device == CHOOSE d \in devices : TRUE
             diff == IF device \in DOMAIN prev_disk_io
                     THEN current_disk_io[device][field] - prev_disk_io[device][field]
                     ELSE 0
         IN diff * SECTOR_BYTES
            + disk_io_total(prev_disk_io, current_disk_io, devices \ {device}, field)

\* the sums of the network loop of main, over the interfaces other than "lo"
RECURSIVE net_total(_, _, _)
net_total(net_speeds, interfaces, field) ==
    IF interfaces = {} THEN 0
    ELSE LET interface == CHOOSE i \in interfaces : TRUE
         IN (IF interface # "lo" THEN net_speeds[interface][field] ELSE 0)
            + net_total(net_speeds, interfaces \ {interface}, field)

(***************************************************************************)
(* Contents the counter sources can have, within the bounds.               *)
(***************************************************************************)
Ticks == 0..MaxTick

UnreadableStat == [readable |-> FALSE, hasCpu |-> FALSE, fields |-> <<>>]

\* a full "cpu " line (user, nice, system, idle, iowait, irq, softirq), a
\* truncated one, no "cpu " line at all, or no file
StatFiles ==
    {UnreadableStat, [readable |-> TRUE, hasCpu |-> FALSE, fields |-> <<>>]}
    \cup {[readable |-> TRUE, hasCpu |-> TRUE, fields |-> <<u, 0, 0, i, 0, 0, 0>>] :
             u \in Ticks, i \in Ticks}
    \cup {[readable |-> TRUE, hasCpu |-> TRUE, fields |-> <<u, 0, 0>>] : u \in Ticks}

ProcIds == 1..MaxPid

\* the entry of one process: gone between listing and reading, or readable
ProcDetails ==
    {[ok |-> FALSE, again |-> a, name |-> <<>>, utime |-> 0, stime |-> 0,
      vsize |-> 0, rss |-> 0] : a \in BOOLEAN}
    \cup {[ok |-> TRUE, again |-> TRUE, name |-> Lit("proc"), utime |-> t, stime |-> 0,
           vsize |-> KIB, rss |-> KIB] : t \in 0..MaxPTick}

\* the listings of the process directory, in ascending and descending order
RECURSIVE Ascending(_)
Ascending(S) ==
    IF S = {} THEN <<>>
    ELSE LET m == CHOOSE x \in S : \A y \in S : x <= y
         IN <<m>> \o Ascending(S \ {m})

Reverse(s) == [i \in 1..Len(s) |-> s[Len(s) + 1 - i]]

Listings == {Ascending(S) : S \in SUBSET ProcIds}
            \cup {Reverse(Ascending(S)) : S \in SUBSET ProcIds}

ProcDirs ==
    {[readable |-> FALSE, listing |-> <<>>,
      detail |-> [p \in ProcIds |-> CHOOSE d \in ProcDetails : ~d.ok]]}
    \cup {[readable |-> TRUE, listing |-> l, detail |-> d] :
             l \in Listings, d \in [ProcIds -> ProcDetails]}

\* the process snapshots read_processes_with_stats can return
ProcSnapshots == {read_processes_with_stats(dir) : dir \in ProcDirs}

\* sequences of at most n elements of S
RECURSIVE SeqsUpTo(_, _)
SeqsUpTo(S, n) ==
    IF n = 0 THEN {<<>>}
    ELSE LET shorter == SeqsUpTo(S, n - 1)
         IN shorter \cup {Append(q, x) : q \in shorter, x \in S}

\* records of /host/proc/net/dev: well-formed, with too few fields, with a
\* counter that is not an integer
NetRecords ==
    {[interface |-> i, nparts |-> 17, bytes_recv |-> 1, bytes_sent |-> 1,
      numeric |-> TRUE] : i \in {"lo", "eth0"}}
    \cup {[interface |-> "eth1", nparts |-> 9, bytes_recv |-> 1, bytes_sent |-> 1,
           numeric |-> TRUE],
          [interface |-> "wlan0", nparts |-> 17, bytes_recv |-> 0, bytes_sent |-> 0,
           numeric |-> FALSE]}
NetDevFiles ==
    {[readable |-> FALSE, lines |-> <<>>]}
    \cup {[readable |-> TRUE, lines |-> l] : l \in SeqsUpTo(NetRecords, MaxLines)}

\* records of /host/proc/diskstats, likewise, and one of a loop device
DiskRecords ==
    {[device |-> d, nparts |-> 14, read_sectors |-> 1, write_sectors |-> 1,
      numeric |-> TRUE] : d \in {"sda", "loop0"}}
    \cup {[device |-> "sdb", nparts |-> 13, read_sectors |-> 1, write_sectors |-> 1,
           numeric |-> TRUE],
          [device |-> "sdc", nparts |-> 14, read_sectors |-> 0, write_sectors |-> 0,
           numeric |-> FALSE]}
DiskStatsFiles ==
    {[readable |-> FALSE, lines |-> <<>>]}
    \cup {[readable |-> TRUE, lines |-> l] : l \in SeqsUpTo(DiskRecords, MaxLines)}

\* byte counts at and next to the powers of 1024
ByteCounts ==
    {m * k + d : m \in 1..MaxScale, k \in {1, KIB, KIB * KIB}, d \in {-1, 0, 1}}

(***************************************************************************)
(* Readings of the host that one run of main can meet.  The host is idle   *)
(* or busy (every gauge beyond its alert threshold); every source has the  *)
(* reading such a host gives at each place it is read, and a set of other  *)
(* readings: missing or truncated sources, regressed counters, values at   *)
(* and beyond the alert thresholds.                                        *)
(***************************************************************************)
Hosts == {"idle", "busy"}
OnHost(h, idle, busy) == IF h = "busy" THEN busy ELSE idle

CpuInfoFiles ==
    {[readable |-> FALSE, procs |-> 0]}
    \cup {[readable |-> TRUE, procs |-> n] : n \in 0..MaxCores}

LoadFile(l) == [readable |-> TRUE, parts |-> <<l, 0, 0>>]
IdleLoad == LoadFile(50)
BusyLoad == LoadFile(LOAD_FACTOR * 100 * MaxCores + 50)
LoadFiles ==
    {IdleLoad, BusyLoad, [readable |-> FALSE, parts |-> <<>>],
     [readable |-> TRUE, parts |-> <<50>>]}
    \cup {LoadFile(LOAD_FACTOR * 100 * c) : c \in 1..MaxCores}
    \cup {LoadFile(LOAD_FACTOR * 100 * c + 1) : c \in 1..MaxCores}

CpuLine(busy, idle) ==
    [readable |-> TRUE, hasCpu |-> TRUE, fields |-> <<busy, 0, 0, idle, 0, 0, 0>>]
TruncatedStat == [readable |-> TRUE, hasCpu |-> TRUE, fields |-> <<1, 0, 0>>]
\* the four reads of /host/proc/stat, in order: 50% busy on the idle host,
\* 90% on the busy one
IdleStat == <<CpuLine(0, 10), CpuLine(10, 20), CpuLine(20, 30), CpuLine(30, 40)>>
BusyStat == <<CpuLine(0, 10), CpuLine(18, 12), CpuLine(36, 14), CpuLine(54, 16)>>
HostStatFiles ==
    {IdleStat[k] : k \in 1..4} \cup {BusyStat[k] : k \in 1..4}
    \cup {UnreadableStat, TruncatedStat,
          CpuLine(17, 13), CpuLine(18, 12), CpuLine(2, 9), CpuLine(21, 30)}

MemLine(key, kib) == [key |-> key, kib |-> kib, numeric |-> TRUE]
MemFile(total, free, buffers, cached, swap_total, swap_free) ==
    [readable |-> TRUE,
     lines |-> <<MemLine("total", total), MemLine("free", free),
                 MemLine("available", free), MemLine("buffers", buffers),
                 MemLine("cached", cached), MemLine("swap_total", swap_total),
                 MemLine("swap_free", swap_free)>>]
IdleMem == MemFile(16, 4, 1, 1, 5, 5)
BusyMem == MemFile(20, 1, 0, 0, 5, 0)
MemFiles ==
    {IdleMem, BusyMem,
     [readable |-> FALSE, lines |-> <<>>],
     [readable |-> TRUE,
      lines |-> <<MemLine("total", 16), [key |-> "free", kib |-> 0, numeric |-> FALSE]>>],
     MemFile(10, 1, 0, 0, 5, 1),
     MemFile(10, 0, 0, 0, 5, 5),
     MemFile(16, 4, 1, 1, 5, 0),
     MemFile(10, 0, 0, 0, 5, 0),
     MemFile(4, 4, 4, 0, 0, 0)}

Vfs(blocks, bavail) == [ok |-> TRUE, f_frsize |-> 4096, f_blocks |-> blocks, f_bavail |-> bavail]
IdleVfs == Vfs(10, 5)
BusyVfs == Vfs(20, 1)
VfsReadings ==
    {IdleVfs, BusyVfs, [ok |-> FALSE, f_frsize |-> 0, f_blocks |-> 0, f_bavail |-> 0],
     Vfs(10, 1), Vfs(10, 0), Vfs(0, 0)}

DiskLine(device, rd, wr) ==
    [device |-> device, nparts |-> 14, read_sectors |-> rd, write_sectors |-> wr,
     numeric |-> TRUE]
DiskFile(rd, wr) ==
    [readable |-> TRUE, lines |-> <<DiskLine("loop0", 7, 7), DiskLine("sda", rd, wr)>>]
\* the two reads of /host/proc/diskstats of a healthy host
HealthyDisk == <<DiskFile(10, 10), DiskFile(12, 13)>>
DiskFiles ==
    {HealthyDisk[1], HealthyDisk[2], [readable |-> FALSE, lines |-> <<>>],
     DiskFile(8, 13), DiskFile(12, 9),
     [readable |-> TRUE,
      lines |-> <<[device |-> "sda", nparts |-> 7, read_sectors |-> 0,
                   write_sectors |-> 0, numeric |-> TRUE]>>]}

NetLine(interface, recv, sent) ==
    [interface |-> interface, nparts |-> 17, bytes_recv |-> recv, bytes_sent |-> sent,
     numeric |-> TRUE]
NetFile(recv, sent) ==
    [readable |-> TRUE, lines |-> <<NetLine("lo", recv, sent), NetLine("eth0", recv, sent)>>]
\* a host with a second network card
NetFileTwoCards(recv, sent, wrecv, wsent) ==
    [readable |-> TRUE,
     lines |-> <<NetLine("lo", recv, sent), NetLine("eth0", recv, sent),
                 NetLine("wlan0", wrecv, wsent)>>]
\* the two reads of /host/proc/net/dev of an idle and of a busy host
IdleNet == <<NetFile(2000, 1000), NetFile(2600, 1500)>>
BusyNet == <<NetFileTwoCards(2000, 1000, 300, 100), NetFileTwoCards(2600, 1500, 700, 300)>>
NetFiles ==
    {IdleNet[1], IdleNet[2], BusyNet[1], BusyNet[2], [readable |-> FALSE, lines |-> <<>>],
     NetFile(2600, 500), NetFile(1000, 1500),
     [readable |-> TRUE, lines |-> <<NetLine("lo", 2000, 1000)>>]}

Gone == [ok |-> FALSE, again |-> FALSE, name |-> <<>>, utime |-> 0, stime |-> 0,
         vsize |-> 0, rss |-> 0]
Alive(name, ticks) ==
    [ok |-> TRUE, again |-> TRUE, name |-> name, utime |-> ticks, stime |-> 0,
     vsize |-> 2 * KIB, rss |-> KIB]
\* process names, character by character: two plain ones, one made of markup
\* characters, one longer than the column of the report
InitName == Text(<<"i", "n", "i", "t">>)
BotName == Text(<<"b", "o", "t">>)
MarkupName == Text(<<"<", "b", ">", "&", "\"", "'">>)
LongName == [i \in 1..(NAME_WIDTH + 1) |-> Ch(IF i > NAME_WIDTH THEN "<" ELSE "x")]
HostProcDir(listing, t1, d2) ==
    [readable |-> TRUE, listing |-> listing,
     detail |-> [p \in ProcIds |-> IF p = 1 THEN Alive(InitName, t1)
                                   ELSE IF p = 2 THEN d2 ELSE Gone]]
\* the two reads of the process directory of a healthy host
HealthyProcs == <<HostProcDir(<<1, 2>>, 0, Alive(BotName, 0)),
                  HostProcDir(<<1, 2>>, 5, Alive(BotName, 0))>>
HostProcDirs ==
    {HealthyProcs[1], HealthyProcs[2],
     [readable |-> FALSE, listing |-> <<>>, detail |-> [p \in ProcIds |-> Gone]]}
    \cup {HostProcDir(l, t1, d2) :
             l \in {<<1>>, <<1, 2>>, <<2, 1>>}, t1 \in {0, 5},
             d2 \in {Gone, Alive(BotName, 0), Alive(BotName, 5),
                     Alive(MarkupName, 0), Alive(LongName, 0)}}

\* what get_docker_containers meets: the client library missing, the daemon
\* not answering, no running container, or a list of containers
Container(name, stats_ok) ==
    [name |-> name, short_id |-> Lit("1a2b3c"), stats_ok |-> stats_ok]
\* container names: without underscore, with one, with two, with a character
\* outside the class before the underscore, made of markup characters
ContainerNames ==
    {Text(<<"w">>), Text(<<"a", "_", "w">>), Text(<<"a", "_", "d", "_", "1">>),
     Text(<<"a", ".", "b", "_", "c">>), Text(<<"<", "b", ">", "&">>)}
\* the message of an exception, with quotes as Python prints them
ErrorText == <<Ch("'"), Ch("Connection aborted."), Ch("'"), Ch(" "), Ch("<"), Ch("&"), Ch(">")>>
DockerOutcome(stage, containers) ==
    [stage |-> stage, error |-> IF stage = "ok" THEN <<>> ELSE ErrorText,
     containers |-> containers]
HealthyDocker == DockerOutcome("ok", <<>>)
DockerFailures == {DockerOutcome(stage, <<>>) : stage \in {"import", "from_env", "ping", "list"}}
DockerOutcomes ==
    {HealthyDocker} \cup DockerFailures
    \cup {DockerOutcome("ok", <<Container(n, TRUE)>>) : n \in ContainerNames}
    \cup {DockerOutcome("ok", <<Container(Text(<<"a", "_", "w">>), TRUE),
                                Container(Text(<<"w">>), FALSE),
                                Container(Text(<<"a", "_", "b">>), TRUE)>>)}

\* what running systemctl is-active gives for one service
ServiceOutcome(kind, stdout, stderr) ==
    [kind |-> kind, stdout |-> stdout, stderr |-> stderr,
     error |-> IF kind = "error" THEN ErrorText ELSE <<>>]
HealthyService == ServiceOutcome("exit", Lit("active"), <<>>)
ServiceOutcomes ==
    {HealthyService,
     ServiceOutcome("exit", Lit("inactive"), <<>>),
     ServiceOutcome("exit", <<>>, <<Ch("Unit "), Ch("<"), Ch("x"), Ch(">"), Ch(" & co")>>),
     ServiceOutcome("timeout", <<>>, <<>>),
     ServiceOutcome("error", <<>>, <<>>)}

\* platform.uname(): the host name and the OS identity
HealthyUname == [node |-> Lit("host"), system |-> Lit("Linux"), release |-> Lit("6.1")]
UnameReadings ==
    {HealthyUname,
     [node |-> <<Ch("h"), Ch("<"), Ch("&"), Ch(">")>>, system |-> Lit("Linux"),
      release |-> <<Ch("6.1"), Ch("\""), Ch("'")>>]}

\* the btime line of /host/proc/stat, 0 when it cannot be read
HealthyBoot == [btime |-> 1000]
BootReadings == {HealthyBoot, [btime |-> 0]}

\* a thermal zone file in millidegrees, 0 when none can be read
HealthyTemp == [millidegrees |-> 45000]
TempReadings == {HealthyTemp, [millidegrees |-> 0]}

\* the readings a source may give when budget more unusual readings are allowed
Within(readings, healthy, budget) == IF budget > 0 THEN readings ELSE {healthy}
Cost(reading, healthy) == IF reading = healthy THEN 0 ELSE 1

(***************************************************************************)
(* The blocks of main.  l is the frame of main: the dictionary of its      *)
(* local variables, a name being in DOMAIN l once it has been assigned.    *)
(* Each block maps the frame before it to the frame after it.              *)
(***************************************************************************)

\* status_translations.get(status, status); a status the table knows arrives
\* as one chunk
translated_status(status) ==
    CASE status = Lit("active") -> Lit("aktiven")
      [] status = Lit("inactive") -> Lit("neaktiven")
      [] status = Lit("failed") -> Lit("oshibka")
      [] status = Lit("activating") -> Lit("zapuskaetsya")
      [] status = Lit("deactivating") -> Lit("ostanavlivaetsya")
      [] OTHER -> status

\* outcome is what subprocess.run does: it returns (kind "exit") with stdout
\* and stderr already stripped, times out, or raises with the message error
check_service(service_name, outcome) ==
    CASE outcome.kind = "exit" ->
             LET status == IF outcome.stdout # <<>> THEN outcome.stdout
                           ELSE outcome.stderr
             IN Lit(service_name) \o Lit(": ") \o translated_status(status)
      [] outcome.kind = "timeout" -> Lit(service_name) \o Lit(": taymaut proverki")
      [] OTHER -> Lit(service_name) \o Lit(": oshibka (")
                  \o Take(outcome.error, SERVICE_ERROR_WIDTH) \o Lit(")")

\* the characters of the model's alphabet that [a-zA-Z0-9_-] matches
WordChars == {"a", "b", "c", "d", "w", "1", "_", "-"}

\* the length of the longest prefix of name made of such characters
RECURSIVE WordRun(_)
WordRun(name) ==
    IF name = <<>> \/ name[1].s \notin WordChars THEN 0
    ELSE 1 + WordRun(Tail(name))

DefaultProject == Text(<<"d", "e", "f", "a", "u", "l", "t">>)

\* lines 453-454: re.match(r"^([a-zA-Z0-9_-]+)_", name) is greedy, so the
\* group ends before the last underscore of the leading run
project_name(name) ==
    LET cuts == {p \in 2..WordRun(name) : name[p].s = "_"}
    IN IF cuts = {} THEN DefaultProject
       ELSE SubSeq(name, 1, (CHOOSE p \in cuts : \A q \in cuts : q <= p) - 1)

\* line 499; the figures of lines 457-497 are one chunk
container_info(container) ==
    Lit("* ") \o container.name \o Lit(" (") \o container.short_id \o Lit("), ")
    \o (IF container.stats_ok THEN Lit("CPU: x%, RAM: used / limit (y%)")
        ELSE Lit("CPU: N/A, RAM: N/A (N/A)"))

\* lines 446-500: grouped_containers, its keys in order of first appearance
RECURSIVE group_containers(_, _)
group_containers(containers, grouped_containers) ==
    IF containers = <<>> THEN grouped_containers
    ELSE LET container == Head(containers)
             project == project_name(container.name)
             hits == {i \in DOMAIN grouped_containers :
                         grouped_containers[i].project = project}
         IN group_containers(Tail(containers),
                IF hits = {}
                THEN Append(grouped_containers,
                            [project |-> project,
                             containers |-> <<container_info(container)>>])
                ELSE [grouped_containers EXCEPT
                         ![CHOOSE i \in hits : TRUE].containers =
                             Append(@, container_info(container))])

\* lines 503-506
RECURSIVE report_lines(_)
report_lines(grouped_containers) ==
    IF grouped_containers = <<>> THEN <<>>
    ELSE LET g == Head(grouped_containers)
         IN <<<<Ch("<"), Ch("b"), Ch(">"), Ch("Project "), Ch("'")>> \o g.project
              \o <<Ch("'"), Ch(":"), Ch("<"), Ch("/b"), Ch(">")>>>>
            \o g.containers \o report_lines(Tail(grouped_containers))

\* outcome.stage is the step that raises ("import", "from_env", "ping",
\* "list") or "ok"; text is the string returned, client what became of the
\* docker client, grouped the groups that were rendered
get_docker_containers(outcome) ==
    CASE outcome.stage = "import" ->
             [text |-> Lit("Docker library unavailable"), client |-> "unopened",
              grouped |-> <<>>]
      [] outcome.stage = "from_env" ->
             [text |-> Lit("Docker unavailable: ")
                       \o Take(outcome.error, DOCKER_ERROR_WIDTH),
              client |-> "unopened", grouped |-> <<>>]
      [] outcome.stage = "ping" ->
             [text |-> Lit("Docker unavailable: ")
                       \o Take(outcome.error, DOCKER_ERROR_WIDTH),
              client |-> "open", grouped |-> <<>>]
      [] outcome.stage = "list" ->
             [text |-> Lit("stats error: ") \o Take(outcome.error, DOCKER_ERROR_WIDTH),
              client |-> "closed", grouped |-> <<>>]
      [] OTHER ->
             IF outcome.containers = <<>>
             THEN [text |-> Lit("no running containers"), client |-> "closed",
                   grouped |-> <<>>]
             ELSE LET grouped == group_containers(outcome.containers, <<>>)
                  IN [text |-> Join(report_lines(grouped), "\n"),
                      client |-> "closed", grouped |-> grouped]

\* lines 524-549: host identity, core count, load average, temperature, boot time
header_block(l, os_count, uname, cpuinfo, loadavg, temp, boot) ==
    [uname |-> uname,
     cpu_count |-> read_cpu_count(cpuinfo, os_count),
     load_avg |-> read_load_average(loadavg),
     cpu_temp |-> temp,
     boot_time_str |-> IF boot.btime > 0 THEN [fmt |-> "%Y-%m-%d %H:%M:%S"] ELSE NA,
     uptime_str |-> IF boot.btime > 0 THEN [fmt |-> "d h m s"] ELSE NA] @@ l

\* lines 552-562: the second CPU reading and the utilisation
cpu_block(l, current_cpu_times) ==
    IF calculate_cpu_percent_raises(l.prev_cpu_times, current_cpu_times)
    THEN [current_cpu_times |-> current_cpu_times, cpu_str |-> NA] @@ l
    ELSE LET cpu_percent == calculate_cpu_percent(l.prev_cpu_times, current_cpu_times)
         IN [current_cpu_times |-> current_cpu_times,
             cpu_percent |-> cpu_percent,
             cpu_str |-> Pct1(cpu_percent)] @@ l

\* lines 565-587
memory_block(l, mem_info) ==
    IF mem_info # EmptyDict
    THEN LET mem_total == Get(mem_info, "total", 0)
             mem_used == mem_total - Get(mem_info, "free", 0)
                         - Get(mem_info, "buffers", 0) - Get(mem_info, "cached", 0)
             mem_percent == IF mem_total > 0 THEN Rat(mem_used * 100, mem_total)
                            ELSE RInt(0)
         IN [mem_info |-> mem_info,
             mem_total |-> mem_total,
             mem_available |-> Get(mem_info, "available", 0),
             mem_used |-> mem_used,
             mem_percent |-> mem_percent,
             mem_percent_str |-> Pct1(mem_percent),
             mem_used_str |-> bytes_to_human_readable(mem_used)] @@ l
    ELSE [mem_info |-> mem_info, mem_percent_str |-> NA, mem_used_str |-> NA] @@ l

\* lines 589-600
swap_block(l) ==
    LET swap_total == Get(l.mem_info, "swap_total", 0)
        swap_free == Get(l.mem_info, "swap_free", 0)
        swap_used == swap_total - swap_free
        swap_percent == IF swap_total > 0 THEN Rat(swap_used * 100, swap_total)
                        ELSE RInt(0)
    IN [swap_total |-> swap_total, swap_free |-> swap_free, swap_used |-> swap_used,
        swap_percent |-> swap_percent,
        swap_percent_str |-> Pct1(swap_percent),
        swap_used_str |-> bytes_to_human_readable(swap_used)] @@ l

\* lines 603-610
disk_block(l, disk_info) ==
    [disk_info |-> disk_info,
     disk_percent_str |-> Pct1(disk_info.percent),
     disk_used_str |-> bytes_to_human_readable(disk_info.used)] @@ l

\* lines 616-636: the second disk I/O reading and the totals
disk_io_block(l, current_disk_io) ==
    LET total_read == disk_io_total(l.prev_disk_io, current_disk_io,
                                    DOMAIN current_disk_io, "read_sectors")
        total_write == disk_io_total(l.prev_disk_io, current_disk_io,
                                     DOMAIN current_disk_io, "write_sectors")
    IN [current_disk_io |-> current_disk_io,
        total_read |-> total_read,
        total_write |-> total_write,
        disk_io_str |-> [fmt |-> "up | down",
                         up |-> bytes_to_human_readable(total_write),
                         down |-> bytes_to_human_readable(total_read)]] @@ l

\* lines 645-658: the second network reading and the totals
network_block(l, current_net) ==
    LET net_speeds == calculate_network_speed(l.prev_net, current_net)
        total_sent == net_total(net_speeds, DOMAIN net_speeds, "bytes_sent_per_sec")
        total_recv == net_total(net_speeds, DOMAIN net_speeds, "bytes_recv_per_sec")
    IN [current_net |-> current_net,
        net_speeds |-> net_speeds,
        total_sent |-> total_sent,
        total_recv |-> total_recv,
        net_usage |-> [fmt |-> "up | down",
                       up |-> bytes_to_human_readable(total_sent),
                       down |-> bytes_to_human_readable(total_recv)]] @@ l

\* variant: the CPU rule compares with >= instead of >
cpu_rule_inclusive(cpu_percent) == RLeq(RInt(CPU_ALERT), cpu_percent)

\* the conditions of the five alert rules
cpu_rule(cpu_percent) == RLess(RInt(CPU_ALERT), cpu_percent)
load_rule(load_avg, cpu_count) == load_avg.min1 > cpu_count * LOAD_FACTOR * 100
mem_rule(mem_percent) == RLess(RInt(MEM_ALERT), mem_percent)
swap_rule(swap_percent) == RLess(RInt(SWAP_ALERT), swap_percent)
disk_rule(disk_info) == RLess(RInt(DISK_ALERT), disk_info.percent)

\* appends the alert when the rule's condition holds
alert_if(alerts, condition, alert) ==
    IF condition THEN Append(alerts, alert) ELSE alerts

\* lines 664-679: reading cpu_percent or mem_percent before it was ever
\* assigned raises UnboundLocalError
alerts_raise(l) == "cpu_percent" \notin DOMAIN l \/ "mem_percent" \notin DOMAIN l

evaluate_alerts(l) ==
    LET a1 == alert_if(<<>>, cpu_rule(l.cpu_percent), [alert |-> "high CPU"])
        a2 == alert_if(a1, load_rule(l.load_avg, l.cpu_count),
                       [alert |-> "high load average", load |-> l.load_avg.min1,
                        limit |-> l.cpu_count * LOAD_FACTOR])
        a3 == alert_if(a2, mem_rule(l.mem_percent),
                       [alert |-> "critical RAM"])
        a4 == alert_if(a3, swap_rule(l.swap_percent),
                       [alert |-> "active swap"])
        a5 == alert_if(a4, disk_rule(l.disk_info), [alert |-> "low disk space"])
    IN a5

\* the string appended for one alert; only the load alert carries values
alert_string(a) ==
    IF a.alert = "high load average"
    THEN <<Ch("high load average ("), [s |-> ".2f", hundredths |-> a.load],
           Ch(" "), Ch(">"), Ch(" "), [s |-> "d", n |-> a.limit], Ch(")")>>
    ELSE Lit(a.alert)

\* variant: the marker is appended to the alerts instead of replacing an empty list
alert_text_marked(alerts) ==
    Join([i \in DOMAIN alerts |-> alert_string(alerts[i])]
         \o <<Lit("system nominal")>>, "\n")

\* line 681
alert_text(alerts) ==
    IF alerts # <<>>
    THEN Join([i \in DOMAIN alerts |-> alert_string(alerts[i])], "\n")
    ELSE Lit("system nominal")

\* lines 664-681
alert_block(l) ==
    LET alerts == evaluate_alerts(l)
    IN [alerts |-> alerts, alert_text |-> alert_text(alerts)] @@ l

\* sorted(..., key=..., reverse=True): descending, equal keys in list order
RECURSIVE insert_desc(_, _, _)
insert_desc(sorted, x, key) ==
    IF sorted = <<>> THEN <<x>>
    ELSE IF RLess(Head(sorted)[key], x[key]) THEN <<x>> \o sorted
         ELSE <<Head(sorted)>> \o insert_desc(Tail(sorted), x, key)

RECURSIVE sorted_desc(_, _)
sorted_desc(seq, key) ==
    IF seq = <<>> THEN <<>>
    ELSE insert_desc(sorted_desc(SubSeq(seq, 1, Len(seq) - 1), key), seq[Len(seq)], key)

top(seq) == SubSeq(seq, 1, Min(Len(seq), TOP_N))

\* lines 728-734
proc_line(p) ==
    [name |-> escape_html(Take(p.name, NAME_WIDTH)), pid |-> p.pid,
     cpu |-> Round1(p.cpu_percent), memory |-> Round1(p.memory_percent)]

\* line 698: the subscript ["total"] raises KeyError on an incomplete reading
process_block_raises(l, current_cpu_stats) ==
    "total" \notin DOMAIN current_cpu_stats \/ "total" \notin DOMAIN l.prev_cpu_stats

\* lines 693-749
process_block(l, os_count, current_processes, current_cpu_stats) ==
    LET read == [current_processes |-> current_processes,
                 current_cpu_stats |-> current_cpu_stats]
    IN IF process_block_raises(l, current_cpu_stats) THEN read @@ l
       ELSE
       LET cpu_time_diff_ticks == current_cpu_stats.total - l.prev_cpu_stats.total
           process_cpu_percentages ==
               calculate_process_cpu_percent(l.prev_processes, current_processes,
                                             cpu_time_diff_ticks, os_count)
           total_memory_bytes == Get(l.mem_info, "total", 0)
           process_memory_percentages ==
               calculate_process_memory_percent(current_processes, total_memory_bytes)
           with_percent ==
               [i \in DOMAIN current_processes |->
                   [cpu_percent |->
                        Get(process_cpu_percentages, current_processes[i].pid, RInt(0)),
                    memory_percent |->
                        Get(process_memory_percentages, current_processes[i].pid, RInt(0))]
                   @@ current_processes[i]]
           top_procs_cpu == top(sorted_desc(with_percent, "cpu_percent"))
           top_procs_mem == top(sorted_desc(with_percent, "memory_percent"))
       IN [current_processes |-> with_percent,
           current_cpu_stats |-> current_cpu_stats,
           cpu_time_diff_ticks |-> cpu_time_diff_ticks,
           top_procs_cpu |-> top_procs_cpu,
           top_procs_mem |-> top_procs_mem,
           proc_info |-> [fmt |-> "by CPU / by RAM",
                          by_cpu |-> [k \in DOMAIN top_procs_cpu |-> proc_line(top_procs_cpu[k])],
                          by_mem |-> [k \in DOMAIN top_procs_mem |-> proc_line(top_procs_mem[k])]]]
          @@ l

services_to_check == <<"ssh", "nginx", "docker">>

\* lines 755-756
services_block(l, outcomes) ==
    [services_status |->
        Join([k \in DOMAIN services_to_check |->
                 check_service(services_to_check[k], outcomes[k])], "\n")] @@ l

\* lines 762-767
escaping_block(l) ==
    [hostname |-> escape_html(l.uname.node),
     os_info |-> escape_html(l.uname.system \o Lit(" ") \o l.uname.release),
     docker_info_escaped |-> escape_html(l.docker_info),
     services_status_escaped |-> escape_html(l.services_status),
     alert_text_escaped |-> escape_html(l.alert_text),
     proc_info_escaped |-> l.proc_info] @@ l

Section(name, body) == [section |-> name, body |-> body]

\* variant: the message is returned without its container section
message_cut(l) ==
    <<Section("header", [hostname |-> l.hostname, os_info |-> l.os_info]),
      Section("status", l.alert_text_escaped)>>

\* lines 770-800: the sections of the message, in order
message(l) ==
    <<Section("header",
              [hostname |-> l.hostname, os_info |-> l.os_info,
               cpu_count |-> l.cpu_count, load_avg |-> l.load_avg,
               cpu_temp |-> l.cpu_temp,
               boot_time_str |-> l.boot_time_str, uptime_str |-> l.uptime_str]),
      Section("cpu", l.cpu_str),
      Section("ram", <<l.mem_percent_str, l.mem_used_str>>),
      Section("swap", <<l.swap_percent_str, l.swap_used_str>>),
      Section("disk", <<l.disk_percent_str, l.disk_used_str,
                        bytes_to_human_readable(Get(l.disk_info, "total", 0))>>),
      Section("disk_io", l.disk_io_str),
      Section("net", l.net_usage),
      Section("status", l.alert_text_escaped),
      Section("processes", l.proc_info_escaped),
      Section("services", l.services_status_escaped),
      Section("docker", l.docker_info_escaped)>>

\* line 803
Report(l) == [ok |-> TRUE, message |-> message(l)]
\* line 807: the top-level failure string
Failure == [ok |-> FALSE, message |-> <<>>]
NoResult == [none |-> TRUE]

(***************************************************************************)
(* State.  pc is the await at which main is suspended, locals its frame,   *)
(* result what it returned, client what became of the docker client;       *)
(* os_count is what os.cpu_count() answers, host                           *)
(* the kind of host of this run and unusual counts the readings so far     *)
(* that differ from what such a host gives.                                *)
(* fn, args and ret record one call of a calculator: fn is "none" until    *)
(* the call is made.                                                       *)
(***************************************************************************)
VARIABLES pc, locals, result, client, os_count, host, unusual, fn, args, ret,
          app, requests, outbox, events,
          user_sessions, lana_command_active, handled

mainVars == <<pc, locals, result, client, os_count, host, unusual, events>>
calcVars == <<fn, args, ret>>
ciVars == <<app, requests, outbox>>
chatVars == <<user_sessions>>
botVars == <<lana_command_active, handled>>
vars == <<pc, locals, result, client, os_count, host, unusual, fn, args, ret,
          app, requests, outbox, events,
          user_sessions, lana_command_active, handled>>

\* events is the order in which main has read its counter sources, slept
\* and computed their deltas
Read(family) == [op |-> "read", family |-> family]
Compute(family) == [op |-> "compute", family |-> family]
\* await asyncio.sleep(seconds)
Sleep(seconds) == [op |-> "sleep", seconds |-> seconds]

\* lines 554-555
start_events == <<Read("cpu"), Sleep(1)>>
\* lines 557-558 and 614-615
after_cpu_sleep_events == <<Read("cpu"), Compute("cpu"), Read("disk_io"), Sleep(1)>>
\* lines 616-632 and 642-643
after_disk_sleep_events ==
    <<Read("disk_io"), Compute("disk_io"), Read("network"), Sleep(1)>>
\* lines 645-654
after_net_sleep_events == <<Read("network"), Compute("network")>>

\* variant: the total-CPU snapshot is taken before the process snapshot
process_sample_events_swapped == <<Read("cpu_total"), Read("processes")>>

\* lines 688-690 and 693-695: the process snapshot, then the total-CPU snapshot
process_sample_events == <<Read("processes"), Read("cpu_total")>>
\* lines 698-709
after_proc_sleep_events == process_sample_events \o <<Compute("processes")>>

NoCall == [none |-> TRUE]

\* no FastAPI application has been created
NoApp == [module |-> "none", ci_secret |-> <<>>]

CiOff ==
    /\ app = NoApp
    /\ requests = <<>>
    /\ outbox = <<>>

\* chat.user_sessions is empty, no Main of the bot has handled an update
ChatBotOff ==
    /\ user_sessions = EmptyDict
    /\ lana_command_active = FALSE
    /\ handled = <<>>

MainInit ==
    /\ pc = "start"
    /\ locals = EmptyDict
    /\ result = NoResult
    /\ client = "unopened"
    /\ os_count \in 0..MaxCores
    /\ host \in Hosts
    /\ unusual = 0
    /\ events = <<>>
    /\ fn = "off"
    /\ args = NoCall
    /\ ret = NoCall
    /\ CiOff
    /\ ChatBotOff

\* what the sources of this run's host read when nothing is unusual
HealthyCpuInfo == [readable |-> TRUE, procs |-> IF os_count > 0 THEN os_count ELSE 1]
HealthyLoad == OnHost(host, IdleLoad, BusyLoad)
HealthyStat == OnHost(host, IdleStat, BusyStat)
HealthyMem == OnHost(host, IdleMem, BusyMem)
HealthyVfs == OnHost(host, IdleVfs, BusyVfs)
HealthyNet == OnHost(host, IdleNet, BusyNet)

\* main up to the first await (line 555)
MainStart ==
    /\ pc = "start"
    /\ \E uname \in Within(UnameReadings, HealthyUname, MaxUnusual - unusual) :
       LET u0 == unusual + Cost(uname, HealthyUname) IN
       \E cpuinfo \in Within(CpuInfoFiles, HealthyCpuInfo, MaxUnusual - u0) :
       LET u1 == u0 + Cost(cpuinfo, HealthyCpuInfo) IN
       \E loadavg \in Within(LoadFiles, HealthyLoad, MaxUnusual - u1) :
       LET u2 == u1 + Cost(loadavg, HealthyLoad) IN
       \E temp \in Within(TempReadings, HealthyTemp, MaxUnusual - u2) :
       LET u3 == u2 + Cost(temp, HealthyTemp) IN
       \E boot \in Within(BootReadings, HealthyBoot, MaxUnusual - u3) :
       LET u4 == u3 + Cost(boot, HealthyBoot) IN
       \E stat \in Within(HostStatFiles, HealthyStat[1], MaxUnusual - u4) :
          /\ unusual' = u4 + Cost(stat, HealthyStat[1])
          /\ locals' = [prev_cpu_times |-> read_cpu_stats(stat)]
                       @@ header_block(locals, os_count, uname, cpuinfo, loadavg,
                                       temp, boot)
    /\ events' = events \o start_events
    /\ pc' = "sleep_cpu"
    /\ UNCHANGED <<result, client, os_count, host, fn, args, ret>>
    /\ UNCHANGED <<ciVars, chatVars, botVars>>

\* from the first await to the second (line 615)
MainAfterCpuSleep ==
    /\ pc = "sleep_cpu"
    /\ \E stat \in Within(HostStatFiles, HealthyStat[2], MaxUnusual - unusual) :
       LET u1 == unusual + Cost(stat, HealthyStat[2]) IN
       \E meminfo \in Within(MemFiles, HealthyMem, MaxUnusual - u1) :
       LET u2 == u1 + Cost(meminfo, HealthyMem) IN
       \E vfs \in Within(VfsReadings, HealthyVfs, MaxUnusual - u2) :
       LET u3 == u2 + Cost(vfs, HealthyVfs) IN
       \E diskstats \in Within(DiskFiles, HealthyDisk[1], MaxUnusual - u3) :
          /\ unusual' = u3 + Cost(diskstats, HealthyDisk[1])
          /\ locals' =
               [prev_disk_io |-> read_disk_io(diskstats)]
               @@ disk_block(
                      swap_block(
                          memory_block(cpu_block(locals, read_cpu_stats(stat)),
                                       read_memory_stats(meminfo))),
                      read_disk_stats(vfs))
    /\ events' = events \o after_cpu_sleep_events
    /\ pc' = "sleep_disk_io"
    /\ UNCHANGED <<result, client, os_count, host, fn, args, ret>>
    /\ UNCHANGED <<ciVars, chatVars, botVars>>

\* from the second await to the third (line 643)
MainAfterDiskSleep ==
    /\ pc = "sleep_disk_io"
    /\ \E diskstats \in Within(DiskFiles, HealthyDisk[2], MaxUnusual - unusual) :
       LET u1 == unusual + Cost(diskstats, HealthyDisk[2]) IN
       \E netdev \in Within(NetFiles, HealthyNet[1], MaxUnusual - u1) :
          /\ unusual' = u1 + Cost(netdev, HealthyNet[1])
          /\ locals' = [net_usage |-> NA, prev_net |-> read_network_stats(netdev)]
                       @@ disk_io_block(locals, read_disk_io(diskstats))
    /\ events' = events \o after_disk_sleep_events
    /\ pc' = "sleep_net"
    /\ UNCHANGED <<result, client, os_count, host, fn, args, ret>>
    /\ UNCHANGED <<ciVars, chatVars, botVars>>

\* from the third await to the fourth (line 691), or to the handler of
\* line 805 when the alert rules raise
MainAfterNetSleep ==
    /\ pc = "sleep_net"
    /\ \E netdev \in Within(NetFiles, HealthyNet[2], MaxUnusual - unusual) :
       LET u1 == unusual + Cost(netdev, HealthyNet[2]) IN
       \E docker \in Within(DockerOutcomes, HealthyDocker, MaxUnusual - u1) :
       LET u2 == u1 + Cost(docker, HealthyDocker)
           answer == get_docker_containers(docker)
           l1 == [docker_info |-> answer.text]
                 @@ network_block(locals, read_network_stats(netdev))
       IN /\ client' = answer.client
          /\ IF alerts_raise(l1)
             THEN /\ unusual' = u2
                  /\ locals' = [alerts |-> <<>>] @@ l1
                  /\ result' = Failure
                  /\ events' = events \o after_net_sleep_events
                  /\ pc' = "done"
             ELSE \E procs \in Within(HostProcDirs, HealthyProcs[1], MaxUnusual - u2) :
                  LET u3 == u2 + Cost(procs, HealthyProcs[1]) IN
                  \E stat \in Within(HostStatFiles, HealthyStat[3], MaxUnusual - u3) :
                     /\ unusual' = u3 + Cost(stat, HealthyStat[3])
                     /\ locals' = [proc_info |-> [fmt |-> "no process information"],
                                   prev_processes |-> read_processes_with_stats(procs),
                                   prev_cpu_stats |-> read_cpu_stats(stat)]
                                  @@ alert_block(l1)
                     /\ result' = result
                     /\ events' = events \o after_net_sleep_events
                                   \o process_sample_events \o <<Sleep(1)>>
                     /\ pc' = "sleep_proc"
    /\ UNCHANGED <<os_count, host, fn, args, ret>>
    /\ UNCHANGED <<ciVars, chatVars, botVars>>

\* from the fourth await to the return of line 803
MainAfterProcSleep ==
    /\ pc = "sleep_proc"
    /\ \E procs \in Within(HostProcDirs, HealthyProcs[2], MaxUnusual - unusual) :
       LET u1 == unusual + Cost(procs, HealthyProcs[2]) IN
       \E stat \in Within(HostStatFiles, HealthyStat[4], MaxUnusual - u1) :
       LET u2 == u1 + Cost(stat, HealthyStat[4]) IN
       \E outcomes \in [1..Len(services_to_check) ->
                           Within(ServiceOutcomes, HealthyService, MaxUnusual - u2)] :
       LET u3 == u2 + Cardinality({k \in DOMAIN outcomes : outcomes[k] # HealthyService})
           l1 == process_block(locals, os_count, read_processes_with_stats(procs),
                               read_cpu_stats(stat))
           l2 == escaping_block(services_block(l1, outcomes))
       IN /\ u3 <= MaxUnusual
          /\ unusual' = u3
          /\ locals' = l2
          /\ result' = Report(l2)
    /\ events' = events \o after_proc_sleep_events
    /\ pc' = "done"
    /\ UNCHANGED <<client, os_count, host, fn, args, ret>>
    /\ UNCHANGED <<ciVars, chatVars, botVars>>

MainNext ==
    \/ MainStart
    \/ MainAfterCpuSleep
    \/ MainAfterDiskSleep
    \/ MainAfterNetSleep
    \/ MainAfterProcSleep

SpecMain == MainInit /\ [][MainNext]_vars

CalcInit ==
    /\ pc = "off"
    /\ locals = EmptyDict
    /\ result = NoResult
    /\ client = "unopened"
    /\ os_count = 0
    /\ host = "idle"
    /\ unusual = 0
    /\ events = <<>>
    /\ fn = "none"
    /\ args = NoCall
    /\ ret = NoCall
    /\ CiOff
    /\ ChatBotOff

CallCalculateCpuPercent ==
    /\ fn = "none"
    /\ \E a \in StatFiles, b \in StatFiles :
        LET prev == read_cpu_stats(a)
            cur == read_cpu_stats(b)
        IN /\ fn' = "calculate_cpu_percent"
           /\ args' = [prev_cpu_times |-> prev, current_cpu_times |-> cur]
           /\ ret' = IF calculate_cpu_percent_raises(prev, cur)
                     THEN [raised |-> "KeyError"]
                     ELSE [value |-> calculate_cpu_percent(prev, cur)]
           /\ UNCHANGED <<mainVars, ciVars, chatVars, botVars>>

CallCalculateProcessCpuPercent ==
    /\ fn = "none"
    /\ \E prev \in ProcSnapshots, cur \in ProcSnapshots,
          diff \in -1..MaxDiff, cores \in 0..MaxCores :
        /\ fn' = "calculate_process_cpu_percent"
        /\ args' = [prev_processes |-> prev, current_processes |-> cur,
                    cpu_time_diff_ticks |-> diff, os_cpu_count |-> cores]
        /\ ret' = [value |-> calculate_process_cpu_percent(prev, cur, diff, cores)]
        /\ UNCHANGED <<mainVars, ciVars, chatVars, botVars>>

CallReadNetworkStats ==
    /\ fn = "none"
    /\ \E file \in NetDevFiles :
        /\ fn' = "read_network_stats"
        /\ args' = [file |-> file]
        /\ ret' = [value |-> read_network_stats(file)]
        /\ UNCHANGED <<mainVars, ciVars, chatVars, botVars>>

CallReadDiskIo ==
    /\ fn = "none"
    /\ \E file \in DiskStatsFiles :
        /\ fn' = "read_disk_io"
        /\ args' = [file |-> file]
        /\ ret' = [value |-> read_disk_io(file)]
        /\ UNCHANGED <<mainVars, ciVars, chatVars, botVars>>

CallReadProcessesWithStats ==
    /\ fn = "none"
    /\ \E dir \in ProcDirs :
        /\ fn' = "read_processes_with_stats"
        /\ args' = [dir |-> dir]
        /\ ret' = [value |-> read_processes_with_stats(dir)]
        /\ UNCHANGED <<mainVars, ciVars, chatVars, botVars>>

CallBytesToHumanReadable ==
    /\ fn = "none"
    /\ \E num_bytes \in ByteCounts :
        /\ fn' = "bytes_to_human_readable"
        /\ args' = [num_bytes |-> num_bytes]
        /\ ret' = [value |-> bytes_to_human_readable(num_bytes)]
        /\ UNCHANGED <<mainVars, ciVars, chatVars, botVars>>

\* the answers of the docker daemon handed to get_docker_containers on its own
DockerAnswers ==
    DockerFailures
    \cup {DockerOutcome("ok", l) :
             l \in SeqsUpTo({Container(n, ok) : n \in ContainerNames, ok \in BOOLEAN},
                            MaxLines)}

CallGetDockerContainers ==
    /\ fn = "none"
    /\ \E outcome \in DockerAnswers \cup DockerOutcomes :
        /\ fn' = "get_docker_containers"
        /\ args' = [outcome |-> outcome]
        /\ ret' = [value |-> get_docker_containers(outcome)]
        /\ UNCHANGED <<mainVars, ciVars, chatVars, botVars>>

CalcNext ==
    \/ CallCalculateCpuPercent
    \/ CallCalculateProcessCpuPercent
    \/ CallReadNetworkStats
    \/ CallReadDiskIo
    \/ CallReadProcessesWithStats
    \/ CallBytesToHumanReadable
    \/ CallGetDockerContainers

SpecCalc == CalcInit /\ [][CalcNext]_vars

(***************************************************************************)
(* The /ci-report endpoint.  app is the closure of create_bot_server: the  *)
(* module that built it and the ci_secret it captured, <<>> for None when  *)
(* CI_SECRET is not in the environment.  requests are the requests         *)
(* received, each with the await its handler is suspended at ("json",      *)
(* "send") or "done" and the status answered; outbox is what               *)
(* bot.send_message has delivered.  A body is a JSON object: secret is the *)
(* "secret" member ("absent" when there is none, "null" for null),         *)
(* complete says whether project, status, url and repo_url are all given.  *)
(***************************************************************************)
SecretValue == "s3cret"
\* os.getenv("CI_SECRET")
ConfiguredSecrets == {<<>>, <<SecretValue>>}
Modules == {"bot_server", "CI_report"}
Bodies == [secret : {"absent", "null", SecretValue, "wrong"}, complete : BOOLEAN]

\* data.get("secret"): None (<<>>) when the member is absent or null
get_secret(data) == IF data.secret \in {"absent", "null"} THEN <<>> ELSE <<data.secret>>

\* if data.get("secret") != ci_secret
secret_rejected(data, ci_secret) == get_secret(data) # ci_secret

\* bot_server.py line 22; CI_report.py fills every field with a fallback
missing_fields(module, data) == module = "bot_server" /\ ~data.complete

parse_mode(module) == IF module = "bot_server" THEN "Markdown" ELSE "HTML"

Answered(r, status) == [r EXCEPT !.pc = "done", !.response = <<status>>]

CiInit ==
    /\ pc = "off"
    /\ locals = EmptyDict
    /\ result = NoResult
    /\ client = "unopened"
    /\ os_count = 0
    /\ host = "idle"
    /\ unusual = 0
    /\ events = <<>>
    /\ fn = "off"
    /\ args = NoCall
    /\ ret = NoCall
    /\ app \in [module : Modules, ci_secret : ConfiguredSecrets]
    /\ requests = <<>>
    /\ outbox = <<>>
    /\ ChatBotOff

\* a POST /ci-report arrives; its handler is suspended at request.json()
CiReportReceive ==
    /\ Len(requests) < MaxRequests
    /\ \E data \in Bodies :
          requests' = Append(requests, [data |-> data, pc |-> "json", response |-> <<>>])
    /\ UNCHANGED <<app, outbox, mainVars, calcVars, chatVars, botVars>>

\* from request.json() to the await of bot.send_message, or to the answer
CiReportAfterJson ==
    /\ \E i \in DOMAIN requests :
          /\ requests[i].pc = "json"
          /\ requests' =
                [requests EXCEPT ![i] =
                    IF secret_rejected(@.data, app.ci_secret) THEN Answered(@, 403)
                    ELSE IF missing_fields(app.module, @.data) THEN Answered(@, 400)
                    ELSE [@ EXCEPT !.pc = "send"]]
    /\ UNCHANGED <<app, outbox, mainVars, calcVars, chatVars, botVars>>

\* bot.send_message returns or raises
CiReportAfterSend ==
    /\ \E i \in DOMAIN requests, delivered \in BOOLEAN :
          /\ requests[i].pc = "send"
          /\ IF delivered
             THEN /\ outbox' = Append(outbox, [request |-> i,
                                                parse_mode |-> parse_mode(app.module)])
                  /\ requests' = [requests EXCEPT ![i] = Answered(@, 200)]
             ELSE /\ outbox' = outbox
                  /\ requests' = [requests EXCEPT ![i] = Answered(@, 500)]
    /\ UNCHANGED <<app, mainVars, calcVars, chatVars, botVars>>

CiNext ==
    \/ CiReportReceive
    \/ CiReportAfterJson
    \/ CiReportAfterSend

SpecCi == CiInit /\ [][CiNext]_vars

(***************************************************************************)
(* chat.py.  user_sessions maps a user id to its session: chat is "None"   *)
(* or the chat object ("empty" when started without history, "summary"     *)
(* when started from a summary), history the list of (question, answer)    *)
(* pairs, turns the counter.  A user id is in DOMAIN user_sessions once    *)
(* the defaultdict holds an entry for it.  Calls are made one after        *)
(* another; fn, args and ret record the last one.                          *)
(***************************************************************************)
UserIds == 1..MaxUsers
Contents == {"hi"}

\* lines 13-17: the entry the defaultdict makes
default_session == [chat |-> "None", history |-> <<>>, turns |-> 0]
\* lines 57-61
new_session == [chat |-> "empty", history |-> <<>>, turns |-> 0]

\* user_sessions[user_id] of a defaultdict
session_of(sessions, user_id) ==
    IF user_id \in DOMAIN sessions THEN sessions[user_id] ELSE default_session

\* lines 56-61: the sessions after the test of reset and of the stored chat
opened_sessions(sessions, user_id, reset) ==
    IF reset \/ session_of(sessions, user_id).chat = "None"
    THEN Put(sessions, user_id, new_session)
    ELSE sessions

ErrorReply == "generation error"
\* summarize_history: the text of the model, or the fixed text of line 119
summarize_history(history, generated) ==
    IF generated THEN "summary" ELSE "brief context"

\* line 99
summary_turn(summarized) == <<"summarization: " \o summarized, "ok, go on">>

\* variant: the history is summarized only once the counter is past the threshold
summary_due_late(turns) == turns > SUMMARIZE_EVERY_N_TURNS

\* line 86
summary_due(turns) == turns >= SUMMARIZE_EVERY_N_TURNS

\* lines 77-107: delivered says whether send_message returned, generated
\* whether generate_content did
gpt_try(session, content, delivered, generated) ==
    IF ~delivered THEN [session |-> session, reply |-> ErrorReply]
    ELSE LET reply == "reply"
             said == [session EXCEPT !.history = Append(@, <<content, reply>>),
                                     !.turns = @ + 1]
         IN IF summary_due(said.turns)
            THEN [session |->
                      [chat |-> "summary",
                       history |-> <<summary_turn(summarize_history(said.history,
                                                                    generated))>>,
                       turns |-> 0],
                  reply |-> reply]
            ELSE [session |-> said, reply |-> reply]

ChatInit ==
    /\ pc = "off"
    /\ locals = EmptyDict
    /\ result = NoResult
    /\ client = "unopened"
    /\ os_count = 0
    /\ host = "idle"
    /\ unusual = 0
    /\ events = <<>>
    /\ fn = "none"
    /\ args = NoCall
    /\ ret = NoCall
    /\ CiOff
    /\ ChatBotOff

\* gpt(content, api_key, user_id, user_name, reset)
CallGpt ==
    /\ \E user_id \in UserIds, content \in Contents, reset \in BOOLEAN,
          delivered \in BOOLEAN, generated \in BOOLEAN :
          LET opened == opened_sessions(user_sessions, user_id, reset)
              answer == gpt_try(opened[user_id], content, delivered, generated)
          IN /\ user_sessions' = Put(opened, user_id, answer.session)
             /\ fn' = "gpt"
             /\ args' = [user_id |-> user_id, reset |-> reset]
             /\ ret' = [value |-> answer.reply]
    /\ UNCHANGED <<mainVars, ciVars, botVars>>

\* reset_context(user_id): user_sessions.pop(user_id, None)
CallResetContext ==
    /\ \E user_id \in UserIds :
          /\ user_sessions' = [u \in DOMAIN user_sessions \ {user_id} |-> user_sessions[u]]
          /\ fn' = "reset_context"
          /\ args' = [user_id |-> user_id, reset |-> FALSE]
          /\ ret' = [value |-> "context reset"]
    /\ UNCHANGED <<mainVars, ciVars, botVars>>

ChatNext ==
    \/ CallGpt
    \/ CallResetContext

SpecChat == ChatInit /\ [][ChatNext]_vars

(***************************************************************************)
(* bot.py.  lana_command_active is the field of the one Main object whose  *)
(* methods handle every update; updates are handled one at a time.         *)
(* handled is the list of the updates handled so far: the kind of update,  *)
(* the chat it came from, whether the assistant was called, the            *)
(* send_message calls made (raised says whether the call raised) and the   *)
(* mode the handler left.                                                  *)
(***************************************************************************)
ChatIds == {1, 2}
Commands == {"start", "chat", "status"}

Message(chat_id, text, raised) == [chat_id |-> chat_id, text |-> text, raised |-> raised]

\* try: send text; except: send fallback.  The send_message calls made
send_or_fallback(chat_id, text, fallback, raised, raised_again) ==
    IF raised
    THEN <<Message(chat_id, text, TRUE), Message(chat_id, fallback, raised_again)>>
    ELSE <<Message(chat_id, text, FALSE)>>

\* variant: /status leaves the mode as it is
mode_after_sticky(kind, active) ==
    CASE kind = "chat" -> TRUE
      [] kind = "start" -> FALSE
      [] OTHER -> active

\* lines 56, 63, 69: what the handler of an update assigns to the mode
mode_after(kind, active) ==
    CASE kind = "chat" -> TRUE
      [] kind \in {"start", "status"} -> FALSE
      [] OTHER -> active

\* lines 55-67: start and lana send one greeting
greeting(kind) == IF kind = "start" THEN "bot started, choose a mode" ELSE "assistant greets you"

\* lines 68-87: the report is sent, or the error text when making or
\* sending it raised
status_sends(chat_id, made, raised, raised_again) ==
    IF made THEN send_or_fallback(chat_id, "report", "report error", raised, raised_again)
    ELSE <<Message(chat_id, "report error", raised_again)>>

\* lines 89-114
echo_sends(chat_id, active, answered, raised, raised_again) ==
    IF active
    THEN IF answered
         THEN send_or_fallback(chat_id, "answer", "gpt error", raised, raised_again)
         ELSE <<Message(chat_id, "gpt error", raised_again)>>
    ELSE <<Message(chat_id, "choose a mode", raised)>>

Handled(kind, chat_id, forwarded, sent, active) ==
    [kind |-> kind, chat_id |-> chat_id, forwarded |-> forwarded, sent |-> sent,
     active |-> active]

BotInit ==
    /\ pc = "off"
    /\ locals = EmptyDict
    /\ result = NoResult
    /\ client = "unopened"
    /\ os_count = 0
    /\ host = "idle"
    /\ unusual = 0
    /\ events = <<>>
    /\ fn = "off"
    /\ args = NoCall
    /\ ret = NoCall
    /\ CiOff
    /\ ChatBotOff

\* Main.start and Main.lana
HandleGreetingCommand ==
    /\ Len(handled) < MaxUpdates
    /\ \E kind \in {"start", "chat"}, chat_id \in ChatIds, raised \in BOOLEAN :
          /\ lana_command_active' = mode_after(kind, lana_command_active)
          /\ handled' = Append(handled,
                 Handled(kind, chat_id, FALSE,
                         <<Message(chat_id, greeting(kind), raised)>>,
                         mode_after(kind, lana_command_active)))
    /\ UNCHANGED <<mainVars, calcVars, ciVars, chatVars>>

\* Main.status
HandleStatus ==
    /\ Len(handled) < MaxUpdates
    /\ \E chat_id \in ChatIds, made \in BOOLEAN, raised \in BOOLEAN,
          raised_again \in BOOLEAN :
          /\ lana_command_active' = mode_after("status", lana_command_active)
          /\ handled' = Append(handled,
                 Handled("status", chat_id, FALSE,
                         status_sends(chat_id, made, raised, raised_again),
                         mode_after("status", lana_command_active)))
    /\ UNCHANGED <<mainVars, calcVars, ciVars, chatVars>>

\* Main.echo_message: a text message that is not a command
HandleText ==
    /\ Len(handled) < MaxUpdates
    /\ \E chat_id \in ChatIds, answered \in BOOLEAN, raised \in BOOLEAN,
          raised_again \in BOOLEAN :
          /\ lana_command_active' = mode_after("text", lana_command_active)
          /\ handled' = Append(handled,
                 Handled("text", chat_id, lana_command_active,
                         echo_sends(chat_id, lana_command_active, answered, raised,
                                    raised_again),
                         mode_after("text", lana_command_active)))
    /\ UNCHANGED <<mainVars, calcVars, ciVars, chatVars>>

BotNext ==
    \/ HandleGreetingCommand
    \/ HandleStatus
    \/ HandleText

SpecBot == BotInit /\ [][BotNext]_vars

(***************************************************************************)
(* Properties of the calculators (checked under SpecCalc).                 *)
(***************************************************************************)
CompleteCpuTimes(d) == DOMAIN d = {"total", "idle"}

CpuCall ==
    /\ fn = "calculate_cpu_percent"
    /\ CompleteCpuTimes(args.prev_cpu_times)
    /\ CompleteCpuTimes(args.current_cpu_times)

\* C2: for every pair of CPU snapshots with non-negative tick counters,
\* calculate_cpu_percent lies in [0, 100] and is 0 exactly when the total
\* tick delta is 0
C2_CpuPercentRange ==
    CpuCall =>
        LET total_delta == args.current_cpu_times.total - args.prev_cpu_times.total
        IN /\ "value" \in DOMAIN ret
           /\ RLeq(RInt(0), ret.value)
           /\ RLeq(ret.value, RInt(100))
           /\ (ret.value = RInt(0)) <=> (total_delta = 0)

ProcCpuCall == fn = "calculate_process_cpu_percent"

\* C5: a process present in both process snapshots gets a non-negative CPU
\* percent, also when its tick counter regressed; a process present only in
\* the second snapshot gets exactly 0
C5_ProcessCpuNonNegative ==
    ProcCpuCall =>
        \A i \in DOMAIN args.current_processes :
            LET pid == args.current_processes[i].pid
            IN /\ pid \in DOMAIN ret.value
               /\ pid \in Pids(args.prev_processes)
                     => RLeq(RInt(0), ret.value[pid])
               /\ pid \notin Pids(args.prev_processes)
                     => ret.value[pid] = RInt(0)

\* a call with a positive total delta where one process regressed and was
\* floored to 0 and another process is new in the second snapshot
C5_Witness ==
    /\ ProcCpuCall
    /\ args.cpu_time_diff_ticks > 0
    /\ \E i \in DOMAIN args.current_processes, j \in DOMAIN args.prev_processes :
          /\ args.current_processes[i].pid = args.prev_processes[j].pid
          /\ args.current_processes[i].total_time < args.prev_processes[j].total_time
          /\ ret.value[args.current_processes[i].pid] = RInt(0)
    /\ \E i \in DOMAIN args.current_processes :
          /\ args.current_processes[i].pid \notin Pids(args.prev_processes)
          /\ ret.value[args.current_processes[i].pid] = RInt(0)

\* C6: the result has exactly the PIDs of the second snapshot as its keys (none
\* of a PID present only in the first), whatever the total tick delta, and
\* every entry is 0 when the total delta is <= 0
C6_ProcessCpuKeys ==
    ProcCpuCall =>
        /\ DOMAIN ret.value = Pids(args.current_processes)
        /\ args.cpu_time_diff_ticks <= 0
              => \A pid \in DOMAIN ret.value : ret.value[pid] = RInt(0)

\* a call with a non-positive total delta, a process that is gone in the
\* second snapshot and one that is still there
C6_Witness ==
    /\ ProcCpuCall
    /\ args.cpu_time_diff_ticks <= 0
    /\ Pids(args.prev_processes) \ Pids(args.current_processes) # {}
    /\ Pids(args.current_processes) \cap Pids(args.prev_processes) # {}
    /\ DOMAIN ret.value = Pids(args.current_processes)

\* a record the reader is meant to keep: enough fields, integer counters
WellFormed(record) ==
    /\ record.numeric
    /\ \/ fn = "read_network_stats" /\ record.nparts >= 10
       \/ fn = "read_disk_io" /\ record.nparts >= 14 /\ ~IsLoopOrRam(record.device)

RecordKey(record) ==
    IF fn = "read_network_stats" THEN record.interface ELSE record.device

\* C12: when a counter file holds a malformed record (wrong field count or
\* a counter that is not an integer) among well-formed ones, every well-formed
\* record, also one after the malformed one, is in the snapshot returned
C12_MalformedRecordSkipped ==
    (fn \in {"read_network_stats", "read_disk_io"} /\ args.file.readable) =>
        \A i \in DOMAIN args.file.lines :
            WellFormed(args.file.lines[i]) =>
                RecordKey(args.file.lines[i]) \in DOMAIN ret.value

ProcReadCall == fn = "read_processes_with_stats" /\ args.dir.readable

\* the listed entries that could be read at the one attempt made
ReadableListed == {p \in Pids([i \in DOMAIN args.dir.listing |-> [pid |-> args.dir.listing[i]]]) :
                      args.dir.detail[p].ok}

\* C13: read_processes_with_stats returns, in listing order and once each,
\* exactly the listed entries that could be read when they were read; an entry
\* that could not is dropped without a second attempt and does not stop the
\* others from being returned
C13_VanishedEntriesDropped ==
    ProcReadCall =>
        /\ Pids(ret.value) = ReadableListed
        /\ Len(ret.value) = Cardinality(ReadableListed)
        /\ \A i, j \in DOMAIN ret.value :
              i < j => \E a, b \in DOMAIN args.dir.listing :
                          /\ a < b
                          /\ args.dir.listing[a] = ret.value[i].pid
                          /\ args.dir.listing[b] = ret.value[j].pid

\* a listing of two entries whose first could not be read (though a later
\* attempt would succeed) and whose second is returned
C13_Witness ==
    /\ ProcReadCall
    /\ Len(args.dir.listing) = 2
    /\ ~args.dir.detail[args.dir.listing[1]].ok
    /\ args.dir.detail[args.dir.listing[1]].again
    /\ Pids(ret.value) = {args.dir.listing[2]}

\* C14: for every non-negative byte count the printed magnitude of every
\* unit other than PiB is below 1024.0
C14_MagnitudeBelow1024 ==
    (fn = "bytes_to_human_readable" /\ args.num_bytes >= 0) =>
        /\ ret.value.unit \in {"B", "KiB", "MiB", "GiB", "TiB", "PiB"}
        /\ ret.value.unit # "PiB" => ret.value.tenths < 10 * KIB

\* the part of a name before its first underscore, <<>> when it has none
RECURSIVE BeforeFirstUnderscore(_)
BeforeFirstUnderscore(name) ==
    IF name = <<>> THEN <<>>
    ELSE IF name[1].s = "_" THEN <<>>
    ELSE <<name[1]>> \o BeforeFirstUnderscore(Tail(name))

HasUnderscore(name) == \E i \in DOMAIN name : name[i].s = "_"

\* C16: the group of a container is the part of its name before the first
\* underscore, and the fixed label when the name has no underscore; the
\* containers of one group are rendered under one heading
C16_ProjectGroup ==
    (fn = "get_docker_containers" /\ args.outcome.stage = "ok") =>
        LET grouped == ret.value.grouped
        IN /\ \A i, j \in DOMAIN grouped : grouped[i].project = grouped[j].project => i = j
           /\ \A k \in DOMAIN args.outcome.containers :
                 LET c == args.outcome.containers[k]
                     expected == IF HasUnderscore(c.name)
                                 THEN BeforeFirstUnderscore(c.name)
                                 ELSE DefaultProject
                 IN \E i \in DOMAIN grouped :
                       /\ grouped[i].project = expected
                       /\ \E n \in DOMAIN grouped[i].containers :
                             grouped[i].containers[n] = container_info(c)

(***************************************************************************)
(* Properties of the report pipeline (checked under SpecMain).             *)
(***************************************************************************)
Has(name) == name \in DOMAIN locals

\* the families whose source was missing, unreadable or incomplete in a read
\* this run has made
CpuSourceFailed ==
    \/ Has("prev_cpu_times") /\ ~CompleteCpuTimes(locals.prev_cpu_times)
    \/ Has("current_cpu_times") /\ ~CompleteCpuTimes(locals.current_cpu_times)
    \/ Has("prev_cpu_stats") /\ ~CompleteCpuTimes(locals.prev_cpu_stats)
    \/ Has("current_cpu_stats") /\ ~CompleteCpuTimes(locals.current_cpu_stats)
MemSourceFailed == Has("mem_info") /\ DOMAIN locals.mem_info # MemKeys
DiskSourceFailed == Has("disk_info") /\ locals.disk_info.total = 0
DiskIoSourceFailed ==
    \/ Has("prev_disk_io") /\ locals.prev_disk_io = EmptyDict
    \/ Has("current_disk_io") /\ locals.current_disk_io = EmptyDict
NetSourceFailed ==
    \/ Has("prev_net") /\ locals.prev_net = EmptyDict
    \/ Has("current_net") /\ locals.current_net = EmptyDict
ProcSourceFailed ==
    \/ Has("prev_processes") /\ locals.prev_processes = <<>>
    \/ Has("current_processes") /\ locals.current_processes = <<>>

FailedFamilies ==
    {f \in {"cpu", "memory", "disk", "disk_io", "network", "processes"} :
        \/ f = "cpu" /\ CpuSourceFailed
        \/ f = "memory" /\ MemSourceFailed
        \/ f = "disk" /\ DiskSourceFailed
        \/ f = "disk_io" /\ DiskIoSourceFailed
        \/ f = "network" /\ NetSourceFailed
        \/ f = "processes" /\ ProcSourceFailed}

ZeroBytes == bytes_to_human_readable(0)

\* the body of a section of the returned report
Body(name) ==
    result.message[CHOOSE i \in DOMAIN result.message :
                      result.message[i].section = name].body

\* the family's value in the report is N/A or zero
ShownUnknown(f) ==
    CASE f = "cpu" -> Body("cpu") \in {NA, Pct1(RInt(0))}
      [] f = "memory" -> Body("ram")[1] \in {NA, Pct1(RInt(0))}
      [] f = "disk" -> Body("disk")[1] \in {NA, Pct1(RInt(0))}
      [] f = "disk_io" -> Body("disk_io") = NA
                          \/ (Body("disk_io").up = ZeroBytes
                              /\ Body("disk_io").down = ZeroBytes)
      [] f = "network" -> Body("net") = NA
                          \/ (Body("net").up = ZeroBytes /\ Body("net").down = ZeroBytes)
      [] OTHER -> \/ "by_cpu" \notin DOMAIN Body("processes")
                  \/ \A k \in DOMAIN Body("processes").by_cpu :
                         Body("processes").by_cpu[k].cpu = 0

\* C1: when the source of one metric family is missing, unreadable or
\* incomplete while the others are readable, main still returns the full
\* report, with that family's value shown as unknown (N/A or zero)
C1_PartialFailureIsolation ==
    (pc = "done" /\ Cardinality(FailedFamilies) = 1) =>
        /\ result.ok
        /\ \A f \in FailedFamilies : ShownUnknown(f)

\* C3: a network byte counter that regressed between the two samples gives
\* a throughput of 0 for that counter, and the totals of the network line are
\* never negative
C3_NetworkNeverNegative ==
    Has("net_speeds") =>
        /\ \A i \in DOMAIN locals.net_speeds :
              /\ locals.current_net[i].bytes_sent < locals.prev_net[i].bytes_sent
                    => locals.net_speeds[i].bytes_sent_per_sec = 0
              /\ locals.current_net[i].bytes_recv < locals.prev_net[i].bytes_recv
                    => locals.net_speeds[i].bytes_recv_per_sec = 0
        /\ locals.total_sent >= 0
        /\ locals.total_recv >= 0

\* C4: the disk I/O read and write totals computed from the two snapshots are
\* never negative
C4_DiskIoNeverNegative ==
    Has("total_read") => locals.total_read >= 0 /\ locals.total_write >= 0

\* C7: for a process present in both snapshots and a positive total tick
\* delta, the CPU percent attached to it is (process tick delta / total tick
\* delta) x 100 x core count, the core count being the one the report shows
\* (stated for a process tick delta that is not negative, where the floor at
\* 0 plays no part)
C7_ProcessCpuFormula ==
    (Has("cpu_time_diff_ticks") /\ locals.cpu_time_diff_ticks > 0) =>
        \A i \in DOMAIN locals.current_processes :
            LET p == locals.current_processes[i]
                prev_p == FirstWithPid(locals.prev_processes, p.pid)
            IN (prev_p # <<>> /\ p.total_time >= prev_p[1].total_time) =>
                  p.cpu_percent =
                      Rat((p.total_time - prev_p[1].total_time) * 100 * locals.cpu_count,
                          locals.cpu_time_diff_ticks)

\* C8: every per-process CPU percent main attaches lies in
\* [0, 100 x core count]
C8_ProcessCpuRange ==
    Has("cpu_time_diff_ticks") =>
        \A i \in DOMAIN locals.current_processes :
            /\ RLeq(RInt(0), locals.current_processes[i].cpu_percent)
            /\ RLeq(locals.current_processes[i].cpu_percent,
                    RInt(100 * locals.cpu_count))

InPercentRange(r) == RLeq(RInt(0), r) /\ RLeq(r, RInt(100))

\* C9: memory used is total - free - buffers - cached, memory percent is
\* used / total x 100, and the memory, swap and disk percents each lie in
\* [0, 100], being 0 when the respective total is 0
C9_GaugePercents ==
    /\ Has("mem_percent") =>
          LET total == Get(locals.mem_info, "total", 0)
              used == total - Get(locals.mem_info, "free", 0)
                      - Get(locals.mem_info, "buffers", 0)
                      - Get(locals.mem_info, "cached", 0)
          IN /\ locals.mem_used = used
             /\ total > 0 => locals.mem_percent[1] * total = used * 100 * locals.mem_percent[2]
             /\ total = 0 => locals.mem_percent = RInt(0)
             /\ InPercentRange(locals.mem_percent)
    /\ Has("swap_percent") =>
          /\ InPercentRange(locals.swap_percent)
          /\ locals.swap_total = 0 => locals.swap_percent = RInt(0)
    /\ Has("disk_info") =>
          /\ InPercentRange(locals.disk_info.percent)
          /\ locals.disk_info.total = 0 => locals.disk_info.percent = RInt(0)

AlertOrder ==
    <<"high CPU", "high load average", "critical RAM", "active swap", "low disk space">>

\* the condition of the k-th rule, on the values the report was computed from
RuleHolds(k) ==
    CASE k = 1 -> locals.cpu_percent[1] > 85 * locals.cpu_percent[2]
      [] k = 2 -> locals.load_avg.min1 > 2 * 100 * locals.cpu_count
      [] k = 3 -> locals.mem_percent[1] > 90 * locals.mem_percent[2]
      [] k = 4 -> locals.swap_percent[1] > 80 * locals.swap_percent[2]
      [] OTHER -> locals.disk_info.percent[1] > 90 * locals.disk_info.percent[2]

\* C10: the alert list holds an alert for exactly the rules whose condition
\* holds (CPU > 85, load > 2 x cores, memory > 90, swap > 80, disk > 90, all
\* strict), each once, in that order
C10_AlertsExactlyFiringRules ==
    Has("alert_text") =>
        LET firing == SelectSeq(<<1, 2, 3, 4, 5>>, RuleHolds)
        IN /\ Len(locals.alerts) = Len(firing)
           /\ \A i \in DOMAIN firing : locals.alerts[i].alert = AlertOrder[firing[i]]

\* a report of a busy host whose CPU reads exactly 85%: the load, memory,
\* swap and disk rules fired, in that order, and the CPU rule did not
C10_Witness ==
    /\ Has("alert_text")
    /\ locals.cpu_percent[1] = CPU_ALERT * locals.cpu_percent[2]
    /\ Len(locals.alerts) = 4
    /\ locals.alerts[1].alert = "high load average"
    /\ locals.alerts[2].alert = "critical RAM"
    /\ locals.alerts[3].alert = "active swap"
    /\ locals.alerts[4].alert = "low disk space"

Returned == pc = "done" /\ result.ok

\* the chunks of a text
Chunks(text) == {text[i] : i \in DOMAIN text}

NominalMarker == Ch("system nominal")

\* C11: the status block of the report carries the "system nominal" marker
\* if and only if no alert rule fired; when a rule fired it lists the alerts
\* and no marker, and it is never empty
C11_NominalIffNoAlert ==
    Returned =>
        LET status == Body("status")
            fired == {k \in 1..5 : RuleHolds(k)}
        IN /\ status # <<>>
           /\ (NominalMarker \in Chunks(status)) <=> (fired = {})
           /\ fired = {} => status = <<NominalMarker>>
           /\ \A k \in fired :
                 \E i \in DOMAIN status :
                    status[i].s \in {AlertOrder[k], "high load average ("}

\* a report whose disk is 95% full while every other gauge is below its
\* threshold: exactly one alert, low disk space, and no marker
C11_Witness ==
    /\ Returned
    /\ locals.disk_info.percent = RInt(95)
    /\ Body("status") = Lit("low disk space")

\* descending by the value of key, equal values by ascending PID
OrderedByValueThenPid(procs, key) ==
    \A i, j \in DOMAIN procs :
        i < j => \/ RLess(procs[j][key], procs[i][key])
                 \/ procs[i][key] = procs[j][key] /\ procs[i].pid < procs[j].pid

\* C15: the processes listed by CPU percent and those listed by memory
\* percent are the TOP_N highest (all when there are fewer), each list in
\* descending order of its value, equal values in ascending order of PID,
\* whatever the order in which the process directory was listed
C15_TopProcessesOrder ==
    (Returned /\ Has("top_procs_cpu")) =>
        /\ Len(locals.top_procs_cpu) = Min(TOP_N, Len(locals.current_processes))
        /\ Len(locals.top_procs_mem) = Min(TOP_N, Len(locals.current_processes))
        /\ OrderedByValueThenPid(locals.top_procs_cpu, "cpu_percent")
        /\ OrderedByValueThenPid(locals.top_procs_mem, "memory_percent")

\* the sections of the report, in their order
SectionOrder ==
    <<"header", "cpu", "ram", "swap", "disk", "disk_io", "net", "status",
      "processes", "services", "docker">>

\* the fields of the header section
HeaderFields ==
    {"hostname", "os_info", "cpu_count", "load_avg", "cpu_temp", "boot_time_str",
     "uptime_str"}

\* C17: main never raises: while it runs it has returned nothing, and when
\* it is done its result is either the top-level failure string alone or the
\* report with every section, in the fixed order, each built from the frame
C17_ReportCompleteOrFailure ==
    /\ pc # "done" => result = NoResult
    /\ pc = "done" =>
          \/ result = Failure
          \/ /\ result.ok
             /\ [i \in DOMAIN result.message |-> result.message[i].section] = SectionOrder
             /\ DOMAIN Body("header") = HeaderFields
             /\ \A i \in DOMAIN result.message : result.message[i].body # <<>>
             /\ Body("docker") = escape_html(locals.docker_info)
             /\ Body("processes") = locals.proc_info

\* a run that failed as a whole after the container section had been built
C17_Witness ==
    pc = "done" /\ result = Failure /\ Has("docker_info") /\ Has("mem_info")

\* the lines get_docker_containers returns when the runtime is unavailable
UnavailableHeads == {"Docker library unavailable", "Docker unavailable: ", "stats error: "}

DockerUnavailable == Has("docker_info") /\ locals.docker_info[1].s \in UnavailableHeads

OneLine(text) == \A i \in DOMAIN text : text[i].s # "\n"

\* the run is over, the runtime was unavailable, no source of a family failed
ReportedUnavailable == pc = "done" /\ DockerUnavailable /\ FailedFamilies = {}

\* C18: when the container runtime is unavailable get_docker_containers
\* returns one explanatory line, the docker client is closed if it was opened,
\* and main returns the full report with that line as its container section
C18_DockerUnavailable ==
    /\ DockerUnavailable => OneLine(locals.docker_info) /\ client # "open"
    /\ ReportedUnavailable =>
          result.ok /\ Body("docker") = escape_html(locals.docker_info)

\* the text holds a markup character as it came
RawMarkup(text) == \E i \in DOMAIN text : text[i].s \in {"<", ">", "&"}

\* the process lines of the returned report, <<>> when the block failed
ProcLines ==
    IF "by_cpu" \in DOMAIN Body("processes")
    THEN Body("processes").by_cpu \o Body("processes").by_mem
    ELSE <<>>

\* the processes the lines were made of
ProcLineSources ==
    IF "by_cpu" \in DOMAIN Body("processes")
    THEN locals.top_procs_cpu \o locals.top_procs_mem
    ELSE <<>>

\* C20: in the returned report the host name, the OS identity, the status
\* text, the service-check text, the container section and every process
\* name are the escaped form of what was read, and hold no raw <, > or &
C20_ExternalStringsEscaped ==
    Returned =>
        /\ Body("header").hostname = escape_html(locals.uname.node)
        /\ Body("header").os_info
             = escape_html(locals.uname.system \o Lit(" ") \o locals.uname.release)
        /\ Body("services") = escape_html(locals.services_status)
        /\ Body("docker") = escape_html(locals.docker_info)
        /\ \A k \in DOMAIN ProcLines :
              /\ ProcLines[k].name = escape_html(Take(ProcLineSources[k].name, NAME_WIDTH))
              /\ ~RawMarkup(ProcLines[k].name)
        /\ ~RawMarkup(Body("header").hostname)
        /\ ~RawMarkup(Body("header").os_info)
        /\ ~RawMarkup(Body("status"))
        /\ ~RawMarkup(Body("services"))
        /\ ~RawMarkup(Body("docker"))

\* a report with a process whose name is made of markup characters
C20_Witness ==
    /\ Returned
    /\ \E k \in DOMAIN ProcLines :
          /\ RawMarkup(ProcLineSources[k].name)
          /\ ProcLines[k].name = escape_html(MarkupName)
          /\ ProcLines[k].name[1].s = "&lt;"

(***************************************************************************)
(* Properties of the /ci-report endpoint (checked under SpecCi).           *)
(***************************************************************************)
\* the "secret" member of the request is absent or is not the configured secret
SecretAbsentOrDifferent(r) ==
    r.data.secret = "absent" \/ <<r.data.secret>> # app.ci_secret

Sent(i) == \E k \in DOMAIN outbox : outbox[k].request = i

\* C19: a request to /ci-report whose secret is absent or differs from the
\* configured secret is answered 403, its handler never reaches the send and
\* no message is sent for it
C19_SecretGuard ==
    \A i \in DOMAIN requests :
        SecretAbsentOrDifferent(requests[i]) =>
            /\ requests[i].pc # "send"
            /\ ~Sent(i)
            /\ requests[i].pc = "done" => requests[i].response = <<403>>

(***************************************************************************)
(* Throughput and sampling order of main (checked under SpecMain).         *)
(***************************************************************************)
\* the network cards of the hosts, the loopback interface left out
Cards == {"eth0", "wlan0"}

\* counter_B - counter_A of one card, 0 unless it is in both snapshots
CardDelta(card, field) ==
    IF card \in DOMAIN locals.prev_net /\ card \in DOMAIN locals.current_net
    THEN locals.current_net[card][field] - locals.prev_net[card][field]
    ELSE 0

ExpectedSent == CardDelta("eth0", "bytes_sent") + CardDelta("wlan0", "bytes_sent")
ExpectedRecv == CardDelta("eth0", "bytes_recv") + CardDelta("wlan0", "bytes_recv")

\* C21: the sent and received throughput of the report are the sums, over
\* the interfaces other than loopback that are in both snapshots, of
\* counter_B - counter_A; an interface in one snapshot only adds nothing
C21_ThroughputIsSumOfDeltas ==
    Has("net_speeds") =>
        /\ DOMAIN locals.prev_net \cup DOMAIN locals.current_net \subseteq Cards \cup {"lo"}
        /\ locals.total_sent = ExpectedSent
        /\ locals.total_recv = ExpectedRecv
        /\ locals.net_usage.up = bytes_to_human_readable(ExpectedSent)
        /\ locals.net_usage.down = bytes_to_human_readable(ExpectedRecv)
        /\ Returned => Body("net") = locals.net_usage

\* the report of a host whose one card went from (sent 1000, received 2000)
\* to (sent 1500, received 2600), loopback counting the same
C21_Witness ==
    /\ Returned
    /\ locals.prev_net["eth0"] = [bytes_recv |-> 2000, bytes_sent |-> 1000]
    /\ locals.current_net["eth0"] = [bytes_recv |-> 2600, bytes_sent |-> 1500]
    /\ "lo" \in DOMAIN locals.net_speeds
    /\ locals.total_sent = 500
    /\ locals.total_recv = 600
    /\ Body("net").up.tenths = 5000

RateFamilies == {"cpu", "disk_io", "network", "processes"}

Reads(family) == {i \in DOMAIN events : events[i] = Read(family)}
Computes(family) == {i \in DOMAIN events : events[i] = Compute(family)}
Sleeps == {i \in DOMAIN events : events[i].op = "sleep"}
First(S) == CHOOSE i \in S : \A j \in S : i <= j
Last(S) == CHOOSE i \in S : \A j \in S : j <= i

\* the family is sampled as: read, one sleep, read, and then computed
SampledInOrder(family) ==
    LET reads == Reads(family)
    IN /\ Cardinality(reads) <= 2
       /\ Cardinality(Computes(family)) <= 1
       /\ Cardinality(reads) = 1 =>
             Cardinality({s \in Sleeps : s > First(reads)}) <= 1
       /\ Cardinality(reads) = 2 =>
             Cardinality({s \in Sleeps : First(reads) < s /\ s < Last(reads)}) = 1
       /\ \A c \in Computes(family) : Cardinality(reads) = 2 /\ c > Last(reads)

\* C22: each rate-based family is read, then main sleeps once for 1 second,
\* then the family is read again, and its deltas are computed only after the
\* second read; the two reads of a family are never on the same side of its
\* sleep; each process snapshot is followed at once by its total-CPU snapshot
C22_SamplingOrder ==
    /\ \A family \in RateFamilies : SampledInOrder(family)
    /\ \A s \in Sleeps : events[s] = Sleep(1)
    /\ \A i \in Reads("processes") : i + 1 \in Reads("cpu_total")
    /\ \A i \in Reads("cpu_total") : i - 1 \in Reads("processes")
    /\ Returned => \A family \in RateFamilies :
                      Cardinality(Reads(family)) = 2 /\ Cardinality(Computes(family)) = 1

\* a returned report: four sleeps, every family read twice and computed
C22_Witness ==
    /\ Returned
    /\ Cardinality(Sleeps) = 4
    /\ \A family \in RateFamilies :
          Cardinality(Reads(family)) = 2 /\ Computes(family) # {}
    /\ Cardinality(Reads("cpu_total")) = 2

(***************************************************************************)
(* Properties of chat.py (checked under SpecChat).                         *)
(***************************************************************************)
\* what sessions store for a user: nothing stored counts as no history, no turns
StoredIn(sessions, user_id) ==
    LET session == session_of(sessions, user_id)
    IN [history |-> session.history, turns |-> session.turns]

Stored(user_id) == StoredIn(user_sessions, user_id)

IsSummaryTurn(turn) == turn \in {summary_turn("summary"), summary_turn("brief context")}

\* C23: a call of gpt that brings the turn counter of its user to 7 leaves
\* the history as exactly one summarized turn and the counter at 0; after
\* every call each counter is below 7 and each history has at most 7 entries
C23_SummarizeAtThreshold ==
    [][LET user_id == args'.user_id
           before == IF args'.reset THEN 0 ELSE Stored(user_id).turns
           after == StoredIn(user_sessions', user_id)
       IN /\ \A u \in UserIds :
                /\ StoredIn(user_sessions', u).turns < SUMMARIZE_EVERY_N_TURNS
                /\ Len(StoredIn(user_sessions', u).history) <= SUMMARIZE_EVERY_N_TURNS
          /\ (fn' = "gpt" /\ ret'.value # ErrorReply
                 /\ before + 1 >= SUMMARIZE_EVERY_N_TURNS) =>
                /\ after.turns = 0
                /\ Len(after.history) = 1
                /\ IsSummaryTurn(after.history[1])]_vars

\* a call of gpt has just summarized the history of its user while another
\* user has a history of 7 entries
C23_Witness ==
    /\ fn = "gpt"
    /\ ret.value # ErrorReply
    /\ Stored(args.user_id).turns = 0
    /\ Len(Stored(args.user_id).history) = 1
    /\ IsSummaryTurn(Stored(args.user_id).history[1])
    /\ \E u \in UserIds : Len(Stored(u).history) = SUMMARIZE_EVERY_N_TURNS

\* C25: a call of gpt whose send_message raises returns the error reply,
\* leaves the history and the counter of its user as they were before the
\* call and leaves the session of every other user untouched
C25_FailureLeavesSessions ==
    [][(fn' = "gpt" /\ ret'.value = ErrorReply) =>
          /\ StoredIn(user_sessions', args'.user_id) = Stored(args'.user_id)
          /\ \A u \in UserIds \ {args'.user_id} :
                /\ (u \in DOMAIN user_sessions') = (u \in DOMAIN user_sessions)
                /\ session_of(user_sessions', u) = session_of(user_sessions, u)]_vars

(***************************************************************************)
(* Properties of the bot's modes (checked under SpecBot).                  *)
(***************************************************************************)
\* the commands handled before the i-th update
CommandsBefore(i) == {j \in 1..(i - 1) : handled[j].kind \in Commands}

\* the most recently handled command before the i-th update, "none" if none
LastCommand(i) ==
    IF CommandsBefore(i) = {} THEN "none"
    ELSE handled[CHOOSE j \in CommandsBefore(i) : \A k \in CommandsBefore(i) : k <= j].kind

ModeBefore(i) == IF i = 1 THEN FALSE ELSE handled[i - 1].active

\* C24: a text message is forwarded to the assistant exactly when the most
\* recently handled command was /chat; when it is not forwarded the only
\* message sent is the mode-selection prompt, to the sender; handling a text
\* message leaves the mode as it was
C24_ForwardedIffChatMode ==
    /\ \A i \in DOMAIN handled :
          handled[i].kind = "text" =>
              /\ handled[i].forwarded <=> LastCommand(i) = "chat"
              /\ ~handled[i].forwarded =>
                    /\ Len(handled[i].sent) = 1
                    /\ handled[i].sent[1].text = "choose a mode"
                    /\ handled[i].sent[1].chat_id = handled[i].chat_id
              /\ handled[i].forwarded =>
                    \A k \in DOMAIN handled[i].sent :
                        handled[i].sent[k].text \in {"answer", "gpt error"}
              /\ handled[i].active = ModeBefore(i)
    /\ lana_command_active <=> LastCommand(Len(handled) + 1) = "chat"

\* /chat from one chat, then two text messages from the other, both forwarded
C24_Witness ==
    /\ Len(handled) = 3
    /\ handled[1].kind = "chat"
    /\ handled[2].kind = "text" /\ handled[2].forwarded
    /\ handled[3].kind = "text" /\ handled[3].forwarded
    /\ handled[2].chat_id # handled[1].chat_id
    /\ lana_command_active

====
